---- MODULE Spec2Model ----
(***************************************************************************)
(* A model of the snapshot lifecycle of the MSRL retrieval engine:         *)
(*   - SnapshotManager (lifecycle/snapshot-manager.ts): the snapshot       *)
(*     directory, one meta.json per snapshot;                              *)
(*   - MsrlEngine (engine.ts): reindex / runBuild under the build lock,    *)
(*     run by the JavaScript event loop (microtask queue, timers);         *)
(*   - FileWatcher (lifecycle/file-watcher.ts): debounced event batches.   *)
(* Each component has its own specification: SpecManager, SpecEngine,      *)
(* SpecWatcher.                                                            *)
(***************************************************************************)
EXTENDS Integers, Sequences, FiniteSets, TLC

\* ------------------------------------------------------------------ bounds
MaxSnapshots == 3
MaxClock == 2
MaxKeep == 1
MaxCalls == 3
MaxDate == 1
MaxEvents == 3
DebounceTicks == 2
MaxFiles == 2
MaxLeaves == 2
MaxQueryLen == 2
MaxDebounce == 3
MaxRows == 2
MaxDocIds == 2
MaxTextLen == 6
MaxLines == 4
MaxAnnIds == 3
MaxInits == 2

VARIABLES
  \* --- SnapshotManager: the snapshots directory
  snapshots,        \* id -> [state, createdAt]: the meta.json of each directory
  clock,            \* the last value read from Date.now()
  mgrPc,            \* position inside activateSnapshot ("idle" between calls)
  last              \* the last SnapshotManager call: its arguments, outcome and
                    \* the directory before it (history, for the claims)

VARIABLES
  \* --- MsrlEngine
  buildLock,        \* this.buildLock
  buildStartedAt,   \* this.buildStartedAt
  currentSnapshot,  \* this.currentSnapshot (the id of the loaded snapshot)
  calls,            \* one record per reindex() call: its position and outcome
  microtasks,       \* the event loop's microtask queue: continuations to run
  sync,             \* the caller's code is running: it can go on calling
                    \* before the queued continuations run
  shutdown          \* the shutdown() call: its position, the calls that were
                    \* running or queued when it was made, and the snapshot
                    \* directories when it resolved (history)

VARIABLES
  \* --- FileWatcher
  watcher,          \* this.watcher: "none" (null), "open", "closing" (inside close())
  callback,         \* this.callback is set
  pendingEvents,    \* this.pendingEvents
  debounceTimer,    \* this.debounceTimer is set (a handle, possibly of a timer
                    \* that has fired)
  timer,            \* the pending timeout: NoTimer, or the time since it was set
  nextEvent,        \* the number of the next filesystem event
  accepted,         \* the events pushed since start() (history)
  delivered,        \* the batches handed to the callback since start() (history)
  quiet             \* the time since the last pushed event, up to the
                    \* debounce interval (history)

VARIABLES
  \* --- SnapshotBuilder
  buildPc,          \* "idle", "running" (inside the loop over the files), "done"
  buildMode,        \* "full" (buildFull) or "incremental" (buildIncremental)
  files,            \* files / filesToProcess: the documents to process, in order
  deleted,          \* the deleted argument of buildIncremental
  fileIdx,          \* the loop variable i, counted from 1
  stats,            \* the BuildStats under construction
  store,            \* what the dependencies hold for the snapshot being built:
                    \* the metadata rows, the BM25 entries and the vectors
  prior,            \* the same for the previous snapshot, whose vectors are
                    \* the embedding cache
  iterations        \* one record per executed loop iteration (history)

VARIABLES
  \* --- queries
  lastQuery         \* the last query: its entry point, text and outcome

VARIABLES
  \* --- MsrlEngine: the watcher setting
  fileWatcher,      \* this.fileWatcher: NoWatcher (null), or the debounce
                    \* interval the FileWatcher was constructed with
  debounceMs,       \* this.config.watcher.debounceMs
  lastWatch,        \* the last setWatch call: its parameters and what the
                    \* last completed call returned (history)
  watchPc           \* the position inside setWatch ("idle" between calls)

VARIABLES
  \* --- MetadataStore and Bm25Index: the tables of one database
  docs,             \* the docs table: rows [docId, docUri, meta]
  nextDocId,        \* the next AUTOINCREMENT value of docs.doc_id
  nodes,            \* the nodes table: rows [nodeId, docId]
  leaves,           \* the leaves table: rows [leafId, docId, nodeId]
  fts,              \* the leaf ids with a row in fts_content and leaves_fts
  lastInsertRowid,  \* the rowid of the last row inserted on the connection
                    \* (sqlite3_last_insert_rowid), 0 before any insert
  lastStore         \* the last store call and what it found (history)

VARIABLES
  \* --- Chunker
  normalizedText,   \* the normalized text of the document
  targetMaxTokens,  \* config.targetMaxTokens
  nodeChunks,       \* the chunks chunkNode returned
  chunkPc           \* "idle", "ready" (a document is given), "done"

VARIABLES
  \* --- MarkdownParser
  docText,          \* the normalized text given to parseHeadings
  headingNodes,     \* the heading tree: the nodes in the order of their
                    \* creation, the virtual root first; children are listed
                    \* in their parent's children array in the same order
  parsePc           \* "idle", "ready" (a text is given), "done"

VARIABLES
  \* --- FaissShardIndex
  faissIndex,       \* this.index: its kind ("none": null) and the number of
                    \* vectors it holds (ntotal)
  initCalls,        \* the number of initialize() calls so far (history)
  idMap,            \* this.idMap: FAISS internal id -> leafId
  reverseMap,       \* this.reverseMap: leafId -> FAISS internal id
  nextId,           \* this.nextId
  indexType,        \* this.indexType
  trained           \* this.trained

dirVars == <<snapshots, clock>>

shardVars == <<faissIndex, initCalls, idMap, reverseMap, nextId, indexType,
              trained>>

parserVars == <<docText, headingNodes, parsePc>>

chunkVars == <<normalizedText, targetMaxTokens, nodeChunks, chunkPc>>

storeVars == <<docs, nextDocId, nodes, leaves, fts, lastInsertRowid, lastStore>>

watchVars == <<fileWatcher, debounceMs, lastWatch, watchPc>>

bldVars == <<buildPc, buildMode, files, deleted, fileIdx, stats, store, prior,
             iterations>>

\* the components other than the snapshot manager, the engine and the watcher
extVars == <<bldVars, lastQuery, watchVars, storeVars, chunkVars, parserVars,
            shardVars>>

fwVars == <<watcher, callback, pendingEvents, debounceTimer, timer, nextEvent,
            accepted, delivered, quiet>>

mgrVars == <<mgrPc, last>>

engVars == <<buildLock, buildStartedAt, currentSnapshot, calls, microtasks, sync,
            shutdown>>

vars == <<dirVars, mgrVars, engVars, fwVars, extVars>>

\* ------------------------------------------------- SnapshotManager: state
\* A snapshot id stands for a directory name; readdir lists the directories
\* in the order of the ids.
SnapIds == 1..MaxSnapshots

\* getActiveSnapshot() / getSnapshotInfo() returning null
NoSnapshot == 0

SnapshotState == {"building", "active", "inactive"}

\* A directory that does not exist (no meta.json).
Absent == [state |-> "none", createdAt |-> 0]

\* getSnapshotInfo(id): null when meta.json does not exist
getSnapshotInfo(snaps, id) ==
  IF id \in DOMAIN snaps /\ snaps[id].state # "none" THEN id ELSE NoSnapshot

\* snapshots.sort((a, b) => b.createdAt - a.createdAt): a stable sort of the
\* readdir order, newest first.
RECURSIVE SortNewestFirst(_, _)
SortNewestFirst(snaps, ids) ==
  IF ids = {} THEN <<>>
  ELSE LET first == CHOOSE i \in ids : \A j \in ids :
                       \/ snaps[j].createdAt < snaps[i].createdAt
                       \/ (snaps[j].createdAt = snaps[i].createdAt /\ i <= j)
       IN <<first>> \o SortNewestFirst(snaps, ids \ {first})

listSnapshots(snaps) ==
  SortNewestFirst(snaps, {i \in DOMAIN snaps : getSnapshotInfo(snaps, i) # NoSnapshot})

\* snapshots.find(s => s.state === 'active') || null
getActiveSnapshot(snaps) ==
  LET l == listSnapshots(snaps)
      hits == {k \in 1..Len(l) : snaps[l[k]].state = "active"}
  IN IF hits = {} THEN NoSnapshot
     ELSE l[CHOOSE k \in hits : \A m \in hits : k <= m]

\* updateState(id, state): rewrites meta.json, keeping createdAt; nothing when
\* the snapshot does not exist.
updateState(snaps, id, st) ==
  IF getSnapshotInfo(snaps, id) = NoSnapshot THEN snaps
  ELSE [snaps EXCEPT ![id].state = st]

\* createSnapshot(): a new directory with meta.json {state: 'building', createdAt: now}
createSnapshot(snaps, id, now) ==
  [snaps EXCEPT ![id] = [state |-> "building", createdAt |-> now]]

\* activateSnapshot, first half: the existence check and the write that
\* deactivates the current active snapshot.
activateThrows(snaps, id) == getSnapshotInfo(snaps, id) = NoSnapshot

\* A deactivation that is skipped.
deactivateCurrentSkipped(snaps, id) == snaps

deactivateCurrent(snaps, id) ==
  LET current == getActiveSnapshot(snaps)
  IN IF current # NoSnapshot /\ current # id
     THEN updateState(snaps, current, "inactive")
     ELSE snaps

\* activateSnapshot, second half: the write that marks id active.
markActive(snaps, id) == updateState(snaps, id, "active")

\* activateSnapshot(id) run to its end without interruption
activateSnapshot(snaps, id) == markActive(deactivateCurrent(snaps, id), id)

\* A deleteSnapshot without the check of the active state.
deleteSnapshotUnchecked(snaps, id) ==
  IF getSnapshotInfo(snaps, id) = NoSnapshot
  THEN [threw |-> FALSE, snaps |-> snaps]
  ELSE [threw |-> FALSE, snaps |-> [snaps EXCEPT ![id] = Absent]]

\* deleteSnapshot(id): [threw, snaps]
deleteSnapshot(snaps, id) ==
  IF getSnapshotInfo(snaps, id) = NoSnapshot
  THEN [threw |-> FALSE, snaps |-> snaps]
  ELSE IF snaps[id].state = "active"
  THEN [threw |-> TRUE, snaps |-> snaps]
  ELSE [threw |-> FALSE, snaps |-> [snaps EXCEPT ![id] = Absent]]

\* The loop of cleanupOldSnapshots over the listing taken at its start.
RECURSIVE cleanupLoop(_, _, _, _, _, _)
cleanupLoop(snaps, list, k, activeId, kept, keepCount) ==
  IF k > Len(list) THEN [threw |-> FALSE, snaps |-> snaps]
  ELSE IF list[k] = activeId
  THEN cleanupLoop(snaps, list, k + 1, activeId, kept, keepCount)
  ELSE IF kept < keepCount
  THEN cleanupLoop(snaps, list, k + 1, activeId, kept + 1, keepCount)
  ELSE LET d == deleteSnapshot(snaps, list[k])
       IN IF d.threw THEN d
          ELSE cleanupLoop(d.snaps, list, k + 1, activeId, kept, keepCount)

\* A cleanup whose counter lets one snapshot too many through.
cleanupOldSnapshotsOffByOne(snaps, keepCount) ==
  cleanupLoop(snaps, listSnapshots(snaps), 1, getActiveSnapshot(snaps), 0, keepCount + 1)

cleanupOldSnapshots(snaps, keepCount) ==
  cleanupLoop(snaps, listSnapshots(snaps), 1, getActiveSnapshot(snaps), 0, keepCount)

\* snapshots.findIndex(s => s.state === 'active'), 1-based; 0 for -1
activeIdx(snaps) ==
  LET l == listSnapshots(snaps)
      hits == {k \in 1..Len(l) : snaps[l[k]].state = "active"}
  IN IF hits = {} THEN 0 ELSE CHOOSE k \in hits : \A m \in hits : k <= m

\* A rollback that activates the oldest snapshot instead of the next one.
rollbackToOldest(snaps) ==
  LET l == listSnapshots(snaps)
      a == activeIdx(snaps)
  IN IF a = 0 \/ a >= Len(l)
     THEN [threw |-> TRUE, snaps |-> snaps]
     ELSE [threw |-> FALSE, snaps |-> activateSnapshot(snaps, l[Len(l)])]

\* rollback(): [threw, snaps]
rollback(snaps) ==
  LET l == listSnapshots(snaps)
      a == activeIdx(snaps)
  IN IF a = 0 \/ a >= Len(l)
     THEN [threw |-> TRUE, snaps |-> snaps]
     ELSE IF activateThrows(snaps, l[a + 1])
     THEN [threw |-> TRUE, snaps |-> snaps]
     ELSE [threw |-> FALSE, snaps |-> activateSnapshot(snaps, l[a + 1])]

\* ------------------------------------------------------ MsrlEngine: state
CallIds == 1..MaxCalls

\* no call (the build lock is free)
NoCall == 0

\* buildStartedAt: Date | null
NoDate == -1

\* A reindex() call that has not been made.
\*   pc:     position of reindex(): "waiting" (in waitForBuild, timer armed),
\*           "woken" (timer fired), "resume" (waitForBuild returned),
\*           "awaitBuild" (awaiting runBuild), "settled" (returned or threw)
\*   build:  position of its runBuild(): "created" (at the await of
\*           createSnapshot), "activated" (at the await of activateSnapshot),
\*           "done", "failed" (the finally block has run)
\*   result: "completed" ({completed: true, snapshotId}), "started"
\*           ({completed: false}), "busy" (INDEX_BUSY), "error" (the build threw)
\*   blockedBy: the call whose build was in progress when the call was made
UnusedCall ==
  [origin |-> "none", wait |-> FALSE, pc |-> "unused", build |-> "none",
   result |-> "none", resultSnap |-> NoSnapshot, snap |-> NoSnapshot,
   startedAt |-> NoDate, busyAt |-> NoDate, blockedBy |-> NoCall]

EngIdle ==
  /\ buildLock = FALSE
  /\ buildStartedAt = NoDate
  /\ currentSnapshot = NoSnapshot
  /\ calls = [c \in CallIds |-> UnusedCall]
  /\ microtasks = <<>>
  /\ sync = FALSE
  /\ shutdown = [pc |-> "none", pending |-> {}, dir |-> <<>>]

\* ----------------------------------------------------- FileWatcher: state
\* no timeout is pending
NoTimer == -1

\* A FileWatcher after its constructor.
FwIdle ==
  /\ watcher = "none"
  /\ callback = FALSE
  /\ pendingEvents = <<>>
  /\ debounceTimer = FALSE
  /\ timer = NoTimer
  /\ nextEvent = 1
  /\ accepted = <<>>
  /\ delivered = <<>>
  /\ quiet = 0

\* ------------------------------------------------- SnapshotBuilder: state
\* The documents of the vault and the leaves a document can have: leaf l of
\* document d keeps its leafId while its text is unchanged.
Docs == 1..MaxFiles

leavesOf(d, k) == {<<d, l>> : l \in 1..k}

EmptyStore == [meta |-> {}, bm25 |-> {}, vector |-> {}]

NoStats ==
  [filesProcessed |-> 0, filesFailed |-> 0, chunksCreated |-> 0,
   embeddingsCreated |-> 0, embeddingsCached |-> 0]

\* A SnapshotBuilder after its constructor, with no previous snapshot.
BldIdle ==
  /\ buildPc = "idle"
  /\ buildMode = "none"
  /\ files = <<>>
  /\ deleted = {}
  /\ fileIdx = 1
  /\ stats = NoStats
  /\ store = EmptyStore
  /\ prior = EmptyStore
  /\ iterations = <<>>

\* the outcome of a query
Outcome(via, text, loaded, outcome, results, tookMs, searched) ==
  [via |-> via, text |-> text, loaded |-> loaded, outcome |-> outcome,
   results |-> results, tookMs |-> tookMs, searched |-> searched]

\* no query was made
QryIdle == lastQuery = Outcome("none", <<>>, NoSnapshot, "none", <<>>, 0, FALSE)

\* this.fileWatcher is null
NoWatcher == 0

\* params.debounceMs is undefined
NoDebounce == 0

\* the default of config.watcher.debounceMs, in units of the model
DefaultDebounce == 1

WatchCall(enabled, given, returned) ==
  [enabled |-> enabled, debounceMs |-> given, returned |-> returned]

\* An engine without a watcher, before any setWatch call.
WatchIdle ==
  /\ watchPc = "idle"
  /\ fileWatcher = NoWatcher
  /\ debounceMs = DefaultDebounce
  /\ lastWatch = WatchCall(FALSE, NoDebounce,
                           [enabled |-> FALSE, debounceMs |-> DefaultDebounce])

StoreCall(op, uri, meta, docId, leafIds, existed) ==
  [op |-> op, docUri |-> uri, meta |-> meta, docId |-> docId,
   leafIds |-> leafIds, existed |-> existed]

\* no row of docs has this doc_id
NoDocId == 0

\* A database after initialize(): the tables are empty.
StoreIdle ==
  /\ docs = {}
  /\ nextDocId = 1
  /\ nodes = {}
  /\ leaves = {}
  /\ fts = {}
  /\ lastInsertRowid = 0
  /\ lastStore = StoreCall("none", "", "", NoDocId, {}, FALSE)

\* A Chunker that was given no document.
ChunkIdle ==
  /\ normalizedText = <<>>
  /\ targetMaxTokens = 1000
  /\ nodeChunks = <<>>
  /\ chunkPc = "idle"

\* A MarkdownParser that was given no text.
ParserIdle ==
  /\ docText = <<>>
  /\ headingNodes = <<>>
  /\ parsePc = "idle"

\* A FaissShardIndex after its constructor, lines 46-53.
ShardIdle ==
  /\ faissIndex = [kind |-> "none", ntotal |-> 0]
  /\ initCalls = 0
  /\ idMap = {}
  /\ reverseMap = {}
  /\ nextId = 0
  /\ indexType = "flat"
  /\ trained = FALSE

ExtIdle ==
  /\ BldIdle
  /\ QryIdle
  /\ WatchIdle
  /\ StoreIdle
  /\ ChunkIdle
  /\ ParserIdle
  /\ ShardIdle

\* ----------------------------------------------- SnapshotManager: actions
Call(op, id, keep, threw, pre) ==
  [op |-> op, id |-> id, keep |-> keep, threw |-> threw, pre |-> pre]

MgrIdle ==
  /\ mgrPc = "idle"
  /\ last = Call("none", NoSnapshot, 0, FALSE, [i \in SnapIds |-> Absent])

MgrInit ==
  /\ snapshots = [i \in SnapIds |-> Absent]
  /\ clock = 0
  /\ MgrIdle
  /\ EngIdle
  /\ FwIdle
  /\ ExtIdle

\* The values Date.now() can return at a call made when the last value read
\* was t: time does not run backwards, and may not have advanced.
Now(t) == t..MaxClock

\* createSnapshot(): generateId() gives a name no directory has
MgrCreateSnapshot ==
  /\ mgrPc = "idle"
  /\ \E id \in SnapIds, now \in Now(clock) :
       /\ snapshots[id].state = "none"
       /\ snapshots' = createSnapshot(snapshots, id, now)
       /\ clock' = now
       /\ last' = Call("create", id, 0, FALSE, snapshots)
  /\ UNCHANGED mgrPc

\* activateSnapshot(id), up to and including the write that deactivates the
\* current snapshot
MgrActivateBegin ==
  /\ mgrPc = "idle"
  /\ \E id \in SnapIds :
       IF activateThrows(snapshots, id)
       THEN /\ last' = Call("activate", id, 0, TRUE, snapshots)
            /\ UNCHANGED <<snapshots, mgrPc>>
       ELSE /\ snapshots' = deactivateCurrent(snapshots, id)
            /\ mgrPc' = "activating"
            /\ last' = Call("activating", id, 0, FALSE, snapshots)
  /\ UNCHANGED clock

\* activateSnapshot(id), the write that marks id active
MgrActivateFinish ==
  /\ mgrPc = "activating"
  /\ snapshots' = markActive(snapshots, last.id)
  /\ mgrPc' = "idle"
  /\ last' = [last EXCEPT !.op = "activate"]
  /\ UNCHANGED clock

\* The process is killed between the two writes of activateSnapshot.
MgrInterrupt ==
  /\ mgrPc = "activating"
  /\ mgrPc' = "idle"
  /\ last' = [last EXCEPT !.op = "interrupted"]
  /\ UNCHANGED <<snapshots, clock>>

MgrDeleteSnapshot ==
  /\ mgrPc = "idle"
  /\ \E id \in SnapIds :
       LET d == deleteSnapshot(snapshots, id)
       IN /\ snapshots' = d.snaps
          /\ last' = Call("delete", id, 0, d.threw, snapshots)
  /\ UNCHANGED <<clock, mgrPc>>

MgrCleanupOldSnapshots ==
  /\ mgrPc = "idle"
  /\ \E keepCount \in 0..MaxKeep :
       LET c == cleanupOldSnapshots(snapshots, keepCount)
       IN /\ snapshots' = c.snaps
          /\ last' = Call("cleanup", NoSnapshot, keepCount, c.threw, snapshots)
  /\ UNCHANGED <<clock, mgrPc>>

MgrRollback ==
  /\ mgrPc = "idle"
  /\ LET r == rollback(snapshots)
     IN /\ snapshots' = r.snaps
        /\ last' = Call("rollback", NoSnapshot, 0, r.threw, snapshots)
  /\ UNCHANGED <<clock, mgrPc>>

MgrNext ==
  \/ MgrCreateSnapshot /\ UNCHANGED <<engVars, fwVars, extVars>>
  \/ MgrActivateBegin /\ UNCHANGED <<engVars, fwVars, extVars>>
  \/ MgrActivateFinish /\ UNCHANGED <<engVars, fwVars, extVars>>
  \/ MgrInterrupt /\ UNCHANGED <<engVars, fwVars, extVars>>
  \/ MgrDeleteSnapshot /\ UNCHANGED <<engVars, fwVars, extVars>>
  \/ MgrCleanupOldSnapshots /\ UNCHANGED <<engVars, fwVars, extVars>>
  \/ MgrRollback /\ UNCHANGED <<engVars, fwVars, extVars>>

SpecManager == MgrInit /\ [][MgrNext]_vars

\* ------------------------------------------------ SnapshotManager: claims
Existing(snaps) == {i \in DOMAIN snaps : snaps[i].state # "none"}

ActiveSet(snaps) == {i \in DOMAIN snaps : snaps[i].state = "active"}

\* C4 (as claimed): at every point of activateSnapshot(id), also between its
\* two writes and when it is interrupted there, the set of snapshots marked
\* active is either the one active before the call or {id}: never empty and
\* never both.
C4_ActivateAllOrNothing ==
  (/\ last.op \in {"activating", "activate", "interrupted"}
   /\ ~last.threw
   /\ ActiveSet(last.pre) # {})
  => \/ ActiveSet(snapshots) = ActiveSet(last.pre)
     \/ ActiveSet(snapshots) = {last.id}

\* C4: the state between the two writes, where the old snapshot was active.
C4_BetweenWrites ==
  /\ mgrPc = "activating"
  /\ ActiveSet(last.pre) # {}
  /\ last.id \notin ActiveSet(last.pre)

\* C6: after any sequence of SnapshotManager calls at most one snapshot is in
\* state 'active', and after an activateSnapshot(id) that returned, the active
\* snapshot is exactly id.
C6_AtMostOneActive ==
  /\ Cardinality(ActiveSet(snapshots)) <= 1
  /\ (last.op = "activate" /\ ~last.threw) => ActiveSet(snapshots) = {last.id}

\* C6: an activation that had another active snapshot to deactivate.
C6_Witness ==
  /\ last.op = "activate"
  /\ ~last.threw
  /\ ActiveSet(last.pre) # {}
  /\ last.id \notin ActiveSet(last.pre)

C8_ActiveNeverRemoved ==
  /\ (last.op = "delete" /\ last.pre[last.id].state = "active")
       => (last.threw /\ snapshots = last.pre)
  /\ last.op = "cleanup"
       => (/\ ~last.threw
           /\ \A i \in ActiveSet(last.pre) : snapshots[i] = last.pre[i])

\* C8: a cleanupOldSnapshots(0) that removed every snapshot but the active one.
C8_Witness ==
  /\ last.op = "cleanup"
  /\ last.keep = 0
  /\ ActiveSet(last.pre) # {}
  /\ Cardinality(Existing(last.pre)) >= 2
  /\ Existing(snapshots) = ActiveSet(last.pre)

\* The snapshots that listSnapshots puts after a: created earlier or, when
\* created in the same millisecond, later in the directory order.
ListedAfter(snaps, a) ==
  {s \in Existing(snaps) \ {a} :
     \/ snaps[s].createdAt < snaps[a].createdAt
     \/ (snaps[s].createdAt = snaps[a].createdAt /\ s > a)}

\* C9: rollback() makes the most recently created of the snapshots older than
\* the active one (for equal creation times: in listing order) the active
\* snapshot and marks the previously active one inactive, changing nothing
\* else; with no active snapshot or none older it throws and leaves every
\* snapshot as it was.
C9_Rollback ==
  last.op = "rollback"
  => LET pre == last.pre
         act == ActiveSet(pre)
     IN IF act = {} \/ \A a \in act : ListedAfter(pre, a) = {}
        THEN last.threw /\ snapshots = pre
        ELSE /\ ~last.threw
             /\ \E a \in act : \E n \in ListedAfter(pre, a) :
                  /\ \A s \in ListedAfter(pre, a) : s = n \/ s \in ListedAfter(pre, n)
                  /\ snapshots = [pre EXCEPT ![a].state = "inactive",
                                             ![n].state = "active"]

\* C9: a rollback that had two older snapshots to choose from.
C9_Witness ==
  /\ last.op = "rollback"
  /\ ~last.threw
  /\ \E a \in ActiveSet(last.pre) : Cardinality(ListedAfter(last.pre, a)) >= 2

\* C9: a rollback that threw although an active snapshot existed.
C9_WitnessThrows ==
  /\ last.op = "rollback"
  /\ last.threw
  /\ ActiveSet(last.pre) # {}
  /\ Cardinality(Existing(last.pre)) >= 2

\* ---------------------------------------------------- MsrlEngine: actions
\* The event loop: a continuation of an async function (what follows an
\* await) is a microtask; microtasks run in the order they were queued, and a
\* timer or another event is handled only when no microtask is left.

\* The snapshot names of the engine's directory: the snapshot of the initial
\* build and one for every later build.
EngineSnapIds == 1..(MaxCalls + 1)

\* The calls whose runBuild() is between its start and its finally block.
Building(cs) == {c \in CallIds : cs[c].build \in {"created", "activated"}}

\* The call whose build holds the lock, if any.
Holder(cs) == IF Building(cs) = {} THEN NoCall ELSE CHOOSE c \in Building(cs) : TRUE

\* A reindex that never looks at the lock.
reindexPathUnguarded(lock, wait) == "build"

\* A reindex that queues behind the running build whatever wait says.
reindexPathAlwaysQueues(lock, wait) == IF lock THEN "wait" ELSE "build"

\* reindex(), lines 278-285: what the call does on entry
reindexPath(lock, wait) ==
  IF lock
  THEN IF ~wait THEN "busy" ELSE "wait"
  ELSE "build"

\* A result taken from the build that the call waited for.
buildResultPiggybacked(cs, c) ==
  IF cs[c].blockedBy # NoCall THEN cs[cs[c].blockedBy].snap ELSE cs[c].snap

\* runBuild(), lines 334-343: the snapshotId of the result, snapshotInfo.id
buildResult(cs, c) == cs[c].snap

\* The continuation of the caller, queued when the promise of a call made by
\* the caller settles; the watcher's call has only a logging catch handler.
CallerJob(origin, c) ==
  IF origin = "caller" THEN << <<"caller", c>> >> ELSE <<>>

\* The values new Date() can have in the engine when the last one was t.
Today(t) == t..MaxDate

\* generateId() in the engine: a name that begins with the time of creation,
\* so the names of the engine's snapshots are in the order of their creation.
NewSnapshotId(snaps) ==
  CHOOSE id \in DOMAIN snaps :
    /\ snaps[id].state = "none"
    /\ \A j \in DOMAIN snaps : snaps[j].state = "none" => id <= j

\* A lock that is released only when the build has succeeded.
releaseOnSuccessOnly(lock, threw) == IF threw THEN lock ELSE FALSE

\* runBuild(), the finally block, lines 344-347: this.buildLock = false,
\* whether the try block returned or threw
releaseLock(lock, threw) == FALSE

\* reindex(), lines 287-301, with the part of runBuild() that runs before its
\* first await (lines 311-323): take the lock, scan the vault, create the
\* snapshot; these run without a pause, at one reading of the clock.
\* ok = FALSE: the scan or createSnapshot throws, and the finally block
\* releases the lock at once.
StartBuild(c, origin, wait, blockedBy, queue) ==
  \E now \in Today(clock), ok \in BOOLEAN :
    LET id == NewSnapshotId(snapshots)
    IN
      /\ buildLock' = IF ok THEN TRUE ELSE releaseLock(TRUE, TRUE)
      /\ buildStartedAt' = IF ok THEN now ELSE NoDate
      /\ snapshots' = IF ok THEN createSnapshot(snapshots, id, now) ELSE snapshots
      /\ clock' = now
      /\ calls' = [calls EXCEPT ![c] =
           [@ EXCEPT !.origin = origin, !.wait = wait, !.blockedBy = blockedBy,
                     !.startedAt = now,
                     !.build = IF ok THEN "created" ELSE "failed",
                     !.snap = IF ok THEN id ELSE NoSnapshot,
                     !.pc = IF wait THEN "awaitBuild" ELSE "settled",
                     !.result = IF wait THEN "none" ELSE "started"]]
      /\ microtasks' = queue
           \o (IF ok THEN << <<"afterCreate", c>> >>
               ELSE IF wait THEN << <<"afterBuild", c>> >> ELSE <<>>)
           \o (IF wait THEN <<>> ELSE CallerJob(origin, c))

\* reindex(params), lines 274-302, up to its first await or its return
Reindex(c, origin, wait) ==
  LET path == reindexPath(buildLock, wait)
      holder == Holder(calls)
  IN CASE path = "busy" ->
            /\ calls' = [calls EXCEPT ![c] =
                 [@ EXCEPT !.origin = origin, !.wait = wait, !.blockedBy = holder,
                           !.pc = "settled", !.result = "busy",
                           !.busyAt = buildStartedAt]]
            /\ microtasks' = microtasks \o CallerJob(origin, c)
            /\ UNCHANGED <<buildLock, buildStartedAt, snapshots, clock>>
       [] path = "wait" ->
            /\ calls' = [calls EXCEPT ![c] =
                 [@ EXCEPT !.origin = origin, !.wait = wait, !.blockedBy = holder,
                           !.pc = "waiting"]]
            /\ UNCHANGED <<microtasks, buildLock, buildStartedAt, snapshots, clock>>
       [] OTHER -> StartBuild(c, origin, wait, holder, microtasks)

\* The next call: calls are numbered in the order they are made.
NextCall(c) == calls[c].pc = "unused" /\ \A d \in CallIds : d < c => calls[d].pc # "unused"

\* The caller's code can run: as an event of its own, or right after code of
\* the caller that has not returned to the event loop.
CallerRuns == microtasks = <<>> \/ sync

\* A caller calls reindex({wait}).
CallReindex ==
  /\ CallerRuns
  /\ shutdown.pc = "none"
  /\ \E c \in CallIds, wait \in BOOLEAN :
       /\ NextCall(c)
       /\ Reindex(c, "caller", wait)
  /\ sync' = TRUE
  /\ UNCHANGED currentSnapshot

\* The caller's code awaits something of its own that is already settled: its
\* continuation goes to the end of the microtask queue, behind the engine's.
CallerAwaits ==
  /\ sync
  /\ microtasks # <<>>
  /\ \A k \in 1..Len(microtasks) : microtasks[k] # <<"caller", NoCall>>
  /\ microtasks' = Append(microtasks, <<"caller", NoCall>>)
  /\ sync' = FALSE
  /\ UNCHANGED <<dirVars, buildLock, buildStartedAt, currentSnapshot, calls>>

\* A timer callback that runs between two continuations of the engine, as if
\* the build awaited real input or output.
MacrotaskRunsAnytime == TRUE

\* A timer callback runs: the event loop takes the next timer only when no
\* microtask is left. The awaits of runBuild (lines 323 and 329) await the
\* values of synchronous functions, so a build never returns to the event
\* loop before its finally block.
MacrotaskRuns == microtasks = <<>>

\* handleFileChanges(events), lines 211-217: the watcher's timer delivers a
\* batch, and the engine calls reindex({wait: false})
WatcherBatch ==
  /\ MacrotaskRuns
  /\ shutdown.pc # "resolved"
  /\ \E c \in CallIds :
       /\ NextCall(c)
       /\ Reindex(c, "watcher", FALSE)
  /\ sync' = FALSE
  /\ UNCHANGED currentSnapshot

\* query(params), lines 222-225 and 250: NOT_INDEXED without a loaded
\* snapshot, else the query is run on the loaded snapshot's pipeline
query(loaded) == IF loaded = NoSnapshot THEN "NOT_INDEXED" ELSE loaded

\* getStatus(), lines 353-371: the state, the id and the stats of the loaded
\* snapshot (zero without one)
getStatus(lock, loaded) ==
  [state |-> IF lock THEN "building"
             ELSE IF loaded # NoSnapshot THEN "ready" ELSE "error",
   snapshotId |-> loaded,
   stats |-> [docs |-> 0, nodes |-> 0, leaves |-> 0, shards |-> 0]]

\* waitForBuild(), line 306: the 100 ms timer of a waiting call fires
TimerFires ==
  /\ MacrotaskRuns
  /\ \E c \in CallIds :
       /\ calls[c].pc = "waiting"
       /\ calls' = [calls EXCEPT ![c].pc = "woken"]
       /\ microtasks' = << <<"wake", c>> >>
  /\ sync' = FALSE
  /\ UNCHANGED <<dirVars, buildLock, buildStartedAt, currentSnapshot>>

Job(kind) == microtasks # <<>> /\ Head(microtasks)[1] = kind

\* waitForBuild(), lines 305-307: while (this.buildLock) sleep again
WaitForBuildWakes ==
  /\ Job("wake")
  /\ LET c == Head(microtasks)[2]
     IN IF buildLock
        THEN /\ calls' = [calls EXCEPT ![c].pc = "waiting"]
             /\ microtasks' = Tail(microtasks)
        ELSE /\ calls' = [calls EXCEPT ![c].pc = "resume"]
             /\ microtasks' = Append(Tail(microtasks), <<"resume", c>>)
  /\ sync' = FALSE
  /\ UNCHANGED <<dirVars, buildLock, buildStartedAt, currentSnapshot>>

\* reindex(), lines 284-301: after await this.waitForBuild()
ReindexResumes ==
  /\ Job("resume")
  /\ LET c == Head(microtasks)[2]
     IN StartBuild(c, calls[c].origin, TRUE, calls[c].blockedBy, Tail(microtasks))
  /\ sync' = FALSE
  /\ UNCHANGED currentSnapshot

\* runBuild(), lines 323-329: after await createSnapshot(), activate the
\* snapshot. ok = FALSE: activateSnapshot throws, and the finally block
\* (lines 344-347) releases the lock.
RunBuildActivates ==
  /\ Job("afterCreate")
  /\ LET c == Head(microtasks)[2]
     IN \E ok \in BOOLEAN :
          IF ok /\ ~activateThrows(snapshots, calls[c].snap)
          THEN /\ snapshots' = activateSnapshot(snapshots, calls[c].snap)
               /\ calls' = [calls EXCEPT ![c].build = "activated"]
               /\ microtasks' = Append(Tail(microtasks), <<"afterActivate", c>>)
               /\ UNCHANGED <<buildLock, buildStartedAt>>
          ELSE /\ buildLock' = releaseLock(buildLock, TRUE)
               /\ buildStartedAt' = NoDate
               /\ calls' = [calls EXCEPT ![c].build = "failed"]
               /\ microtasks' = Tail(microtasks)
                    \o (IF calls[c].wait THEN << <<"afterBuild", c>> >> ELSE <<>>)
               /\ UNCHANGED snapshots
  /\ sync' = FALSE
  /\ UNCHANGED <<clock, currentSnapshot>>

\* runBuild(), lines 331-347: after await activateSnapshot(), build the
\* result; the finally block releases the lock
RunBuildReturns ==
  /\ Job("afterActivate")
  /\ LET c == Head(microtasks)[2]
     IN /\ buildLock' = releaseLock(buildLock, FALSE)
        /\ buildStartedAt' = NoDate
        /\ calls' = [calls EXCEPT ![c].build = "done",
                                  ![c].resultSnap = buildResult(calls, c)]
        /\ microtasks' = Tail(microtasks)
             \o (IF calls[c].wait THEN << <<"afterBuild", c>> >> ELSE <<>>)
  /\ sync' = FALSE
  /\ UNCHANGED <<dirVars, currentSnapshot>>

\* reindex(), lines 300-301: after await this.runBuild(), return its result
\* (or throw what it threw)
ReindexReturns ==
  /\ Job("afterBuild")
  /\ LET c == Head(microtasks)[2]
     IN /\ calls' = [calls EXCEPT
             ![c].pc = "settled",
             ![c].result = IF calls[c].build = "done" THEN "completed" ELSE "error"]
        /\ microtasks' = Tail(microtasks) \o CallerJob(calls[c].origin, c)
  /\ sync' = FALSE
  /\ UNCHANGED <<dirVars, buildLock, buildStartedAt, currentSnapshot>>

\* The code of the caller that awaited the call runs.
CallerContinues ==
  /\ Job("caller")
  /\ microtasks' = Tail(microtasks)
  /\ sync' = TRUE
  /\ UNCHANGED <<dirVars, buildLock, buildStartedAt, currentSnapshot, calls>>

\* The calls whose reindex() is inside waitForBuild or about to start its
\* build.
Queued(cs) == {c \in CallIds : cs[c].pc \in {"waiting", "woken", "resume"}}

\* shutdown(), lines 403-407, up to await this.stopWatcher(): stop() clears
\* the debounce timer and begins to close the subscription. The caller calls
\* nothing else on the engine afterwards.
CallShutdown ==
  /\ CallerRuns
  /\ shutdown.pc = "none"
  /\ shutdown' = [shutdown EXCEPT !.pc = "stopping",
                                  !.pending = Building(calls) \cup Queued(calls)]
  /\ sync' = TRUE
  /\ UNCHANGED <<dirVars, buildLock, buildStartedAt, currentSnapshot, calls,
                 microtasks>>

\* shutdown(), lines 409-415: the subscription is closed, in a later turn of
\* the event loop; the watcher delivers nothing any more, the loaded snapshot
\* is closed and dropped, and shutdown() resolves. Neither the lock nor a
\* waiting reindex() is looked at.
ShutdownResumes ==
  /\ MacrotaskRuns
  /\ shutdown.pc = "stopping"
  /\ shutdown' = [shutdown EXCEPT !.pc = "resolved", !.dir = snapshots]
  /\ currentSnapshot' = NoSnapshot
  /\ sync' = FALSE
  /\ UNCHANGED <<dirVars, buildLock, buildStartedAt, calls, microtasks>>

\* The engine as create() hands it to the caller (lines 112-148), for a vault
\* without snapshots: the initial reindex({wait: true}) has built and
\* activated the first snapshot, loadSnapshot (lines 182-186) has loaded
\* nothing, and the watcher is running.
EngInit ==
  /\ snapshots = [i \in EngineSnapIds |->
                    IF i = 1 THEN [state |-> "active", createdAt |-> 0] ELSE Absent]
  /\ clock = 0
  /\ MgrIdle
  /\ EngIdle
  /\ FwIdle
  /\ ExtIdle

EngNext ==
  \/ CallReindex /\ UNCHANGED <<mgrVars, fwVars, extVars, shutdown>>
  \/ CallerAwaits /\ UNCHANGED <<mgrVars, fwVars, extVars, shutdown>>
  \/ WatcherBatch /\ UNCHANGED <<mgrVars, fwVars, extVars, shutdown>>
  \/ TimerFires /\ UNCHANGED <<mgrVars, fwVars, extVars, shutdown>>
  \/ WaitForBuildWakes /\ UNCHANGED <<mgrVars, fwVars, extVars, shutdown>>
  \/ ReindexResumes /\ UNCHANGED <<mgrVars, fwVars, extVars, shutdown>>
  \/ RunBuildActivates /\ UNCHANGED <<mgrVars, fwVars, extVars, shutdown>>
  \/ RunBuildReturns /\ UNCHANGED <<mgrVars, fwVars, extVars, shutdown>>
  \/ ReindexReturns /\ UNCHANGED <<mgrVars, fwVars, extVars, shutdown>>
  \/ CallerContinues /\ UNCHANGED <<mgrVars, fwVars, extVars, shutdown>>

SpecEngine == EngInit /\ [][EngNext]_vars

\* The engine with a caller that shuts it down.
ShutdownNext ==
  \/ EngNext
  \/ CallShutdown /\ UNCHANGED <<mgrVars, fwVars, extVars>>
  \/ ShutdownResumes /\ UNCHANGED <<mgrVars, fwVars, extVars>>

SpecShutdown == EngInit /\ [][ShutdownNext]_vars

\* ----------------------------------------------------- MsrlEngine: claims
\* C1: at most one index build is in progress at any time, and the lock is
\* held exactly while one is.
C1_OneBuildAtATime ==
  /\ Cardinality(Building(calls)) <= 1
  /\ buildLock <=> Building(calls) # {}

\* C1: a call that waited is building while another call still waits.
C1_Witness ==
  \E c, d \in CallIds :
    /\ c # d
    /\ calls[c].blockedBy # NoCall /\ calls[c].wait /\ c \in Building(calls)
    /\ calls[d].pc = "waiting"

\* C2: reindex({wait: false}) called while a build is in progress fails with
\* INDEX_BUSY carrying the start time of that build, and starts no build of
\* its own; INDEX_BUSY is thrown in no other case.
C2_BusyFailsFast ==
  \A c \in CallIds :
    /\ (calls[c].pc # "unused" /\ ~calls[c].wait /\ calls[c].blockedBy # NoCall)
         => /\ calls[c].result = "busy"
            /\ calls[c].busyAt # NoDate
            /\ calls[c].busyAt = calls[calls[c].blockedBy].startedAt
            /\ calls[c].build = "none"
            /\ calls[c].snap = NoSnapshot
    /\ calls[c].result = "busy" => (~calls[c].wait /\ calls[c].blockedBy # NoCall)

\* C2: a call failed with INDEX_BUSY, and another build started at a time
\* other than the one the error carries.
C2_Witness ==
  \E c, d \in CallIds :
    /\ calls[c].result = "busy"
    /\ calls[d].startedAt # NoDate
    /\ calls[d].startedAt # calls[c].busyAt

\* C3: reindex({wait: true}) called while a build is in progress starts its
\* own build only after that build has finished, returns only after its own
\* build has finished, and returns the outcome of its own build: the id of the
\* snapshot it created, never that of the build it waited for.
C3_WaitQueuesOwnBuild ==
  \A c \in CallIds :
    (calls[c].wait /\ calls[c].blockedBy # NoCall)
    => LET b == calls[c].blockedBy
       IN /\ calls[c].build # "none" => calls[b].build \in {"done", "failed"}
          /\ calls[c].pc = "settled"
               => /\ calls[c].build \in {"done", "failed"}
                  /\ calls[c].result =
                       IF calls[c].build = "done" THEN "completed" ELSE "error"
          /\ calls[c].result = "completed"
               => /\ calls[c].snap # NoSnapshot
                  /\ calls[c].resultSnap = calls[c].snap
                  /\ calls[c].resultSnap # calls[b].snap

\* C3: a call that waited for a build that created a snapshot has returned
\* completed.
C3_Witness ==
  \E c \in CallIds :
    /\ calls[c].wait
    /\ calls[c].blockedBy # NoCall
    /\ calls[calls[c].blockedBy].snap # NoSnapshot
    /\ calls[c].result = "completed"

\* C5 (as claimed): once reindex has returned completed with snapshotId S and
\* S is the active snapshot, the engine's loaded snapshot is S, and a query
\* that begins then is served from S.
C5_CompletedBuildIsLoaded ==
  \A c \in CallIds :
    (/\ calls[c].result = "completed"
     /\ snapshots[calls[c].resultSnap].state = "active")
    => /\ currentSnapshot = calls[c].resultSnap
       /\ query(currentSnapshot) = calls[c].resultSnap

\* C5: reindex has returned completed, and a query fails with NOT_INDEXED.
C5_Witness ==
  /\ \E c \in CallIds : calls[c].result = "completed"
  /\ query(currentSnapshot) = "NOT_INDEXED"

\* C15: once create() has returned for a vault with no .md files and no build
\* is running, getStatus() reports state 'ready' with all-zero stats, and a
\* query returns a result instead of failing.
C15_EmptyVaultReady ==
  ~buildLock =>
    /\ getStatus(buildLock, currentSnapshot).state = "ready"
    /\ getStatus(buildLock, currentSnapshot).stats =
         [docs |-> 0, nodes |-> 0, leaves |-> 0, shards |-> 0]
    /\ query(currentSnapshot) # "NOT_INDEXED"

\* C15: create() has returned, reindex was not called since, getStatus()
\* reports state 'error' and a query fails with NOT_INDEXED.
C15_Witness ==
  /\ \A c \in CallIds : calls[c] = UnusedCall
  /\ ~buildLock
  /\ snapshots[1].state = "active"
  /\ getStatus(buildLock, currentSnapshot).state = "error"
  /\ query(currentSnapshot) = "NOT_INDEXED"

\* --------------------------------------------------- FileWatcher: actions
\* The paths an event can name.
PathKinds == {"md", "other", "hiddenMd"}

\* handleEvent(), lines 93-105: only .md files outside hidden directories
acceptsPath(kind) == kind = "md"

\* A scheduleFlush that leaves a pending timeout running.
scheduleFlushKeepsTimer(t) == IF t = NoTimer THEN 0 ELSE t

\* scheduleFlush(), lines 111-119: clearTimeout of the old timeout, and a new
\* timeout of debounceMs
scheduleFlush(t) == 0

\* A flush that keeps the buffer.
flushedBufferKept(pending) == pending

\* flush(), line 127: this.pendingEvents = []
flushedBuffer(pending) == <<>>

\* flush(), line 122: nothing to do
flushReturnsEarly(pending, cb) == pending = <<>> \/ ~cb

\* start(callback), lines 39-70
FwStart ==
  /\ watcher = "none"
  /\ watcher' = "open"
  /\ callback' = TRUE
  /\ accepted' = <<>>
  /\ delivered' = <<>>
  /\ UNCHANGED <<pendingEvents, debounceTimer, timer, nextEvent, quiet>>

\* handleEvent(type, filePath), lines 92-109, with scheduleFlush(): chokidar
\* reports an event while the subscription is open or closing
FwHandleEvent ==
  /\ watcher \in {"open", "closing"}
  /\ nextEvent <= MaxEvents
  /\ nextEvent' = nextEvent + 1
  /\ \E kind \in PathKinds :
       IF acceptsPath(kind)
       THEN /\ pendingEvents' = Append(pendingEvents, nextEvent)
            /\ accepted' = Append(accepted, nextEvent)
            /\ timer' = scheduleFlush(timer)
            /\ debounceTimer' = TRUE
            /\ quiet' = 0
       ELSE UNCHANGED <<pendingEvents, accepted, timer, debounceTimer, quiet>>
  /\ UNCHANGED <<watcher, callback, delivered>>

\* Time passes: one unit of the debounce interval.
FwTick ==
  /\ \/ quiet < DebounceTicks
     \/ (timer # NoTimer /\ timer < DebounceTicks)
  /\ quiet' = IF quiet < DebounceTicks THEN quiet + 1 ELSE quiet
  /\ timer' = IF timer # NoTimer /\ timer < DebounceTicks THEN timer + 1 ELSE timer
  /\ UNCHANGED <<watcher, callback, pendingEvents, debounceTimer, nextEvent,
                 accepted, delivered>>

\* The timeout set by scheduleFlush() fires, not before debounceMs have
\* passed: flush(), lines 121-131
FwFlush ==
  /\ timer = DebounceTicks
  /\ timer' = NoTimer
  /\ IF flushReturnsEarly(pendingEvents, callback)
     THEN UNCHANGED <<pendingEvents, debounceTimer, delivered>>
     ELSE /\ pendingEvents' = flushedBuffer(pendingEvents)
          /\ debounceTimer' = FALSE
          /\ delivered' = Append(delivered,
               [events |-> pendingEvents, quiet |-> quiet, open |-> watcher = "open",
                left |-> flushedBuffer(pendingEvents)])
  /\ UNCHANGED <<watcher, callback, nextEvent, accepted, quiet>>

\* stop(), lines 72-82: cancel the pending timeout and begin to close the
\* subscription; a stop() before start() or after a completed stop() returns at
\* line 74 and changes nothing, a stop() during the close cancels again
FwStopBegins ==
  /\ watcher \in {"open", "closing"}
  /\ watcher' = "closing"
  /\ timer' = IF debounceTimer THEN NoTimer ELSE timer
  /\ debounceTimer' = FALSE
  /\ UNCHANGED <<callback, pendingEvents, nextEvent, accepted, delivered, quiet>>

\* stop(), lines 83-85: after await this.watcher.close()
FwStopEnds ==
  /\ watcher = "closing"
  /\ watcher' = "none"
  /\ callback' = FALSE
  /\ pendingEvents' = <<>>
  /\ UNCHANGED <<debounceTimer, timer, nextEvent, accepted, delivered, quiet>>

FwInit ==
  /\ snapshots = [i \in SnapIds |-> Absent]
  /\ clock = 0
  /\ MgrIdle
  /\ EngIdle
  /\ FwIdle
  /\ ExtIdle

FwNext ==
  \/ FwStart /\ UNCHANGED <<dirVars, mgrVars, engVars, extVars>>
  \/ FwHandleEvent /\ UNCHANGED <<dirVars, mgrVars, engVars, extVars>>
  \/ FwTick /\ UNCHANGED <<dirVars, mgrVars, engVars, extVars>>
  \/ FwFlush /\ UNCHANGED <<dirVars, mgrVars, engVars, extVars>>
  \/ FwStopBegins /\ UNCHANGED <<dirVars, mgrVars, engVars, extVars>>
  \/ FwStopEnds /\ UNCHANGED <<dirVars, mgrVars, engVars, extVars>>

SpecWatcher == FwInit /\ [][FwNext]_vars

\* Timers fire and time passes: the event loop runs a timeout that is due.
SpecWatcherFair ==
  /\ FwInit
  /\ [][FwNext]_vars
  /\ WF_vars(FwTick /\ UNCHANGED <<dirVars, mgrVars, engVars, extVars>>)
  /\ WF_vars(FwFlush /\ UNCHANGED <<dirVars, mgrVars, engVars, extVars>>)

\* ---------------------------------------------------- FileWatcher: claims
RECURSIVE Flatten(_)
Flatten(batches) ==
  IF batches = <<>> THEN <<>>
  ELSE Head(batches).events \o Flatten(Tail(batches))

\* While the watcher runs and stop() has not been called: the delivered
\* batches followed by the buffer are the pushed events, each once and in
\* arrival order; every batch was delivered after a quiet debounce interval,
\* holds at least one event and left the buffer empty; and a timeout is
\* pending whenever events are buffered.
C10_Safety ==
  watcher = "open"
  => /\ Flatten(delivered) \o pendingEvents = accepted
     /\ \A k \in 1..Len(delivered) :
          /\ delivered[k].events # <<>>
          /\ delivered[k].quiet >= DebounceTicks
          /\ delivered[k].left = <<>>
     /\ pendingEvents # <<>> => timer # NoTimer

\* Every buffered event is delivered (it leaves the buffer in a batch), unless
\* stop() is called.
C10_Delivered ==
  \A e \in 1..MaxEvents :
    (watcher = "open" /\ \E k \in 1..Len(pendingEvents) : pendingEvents[k] = e)
    ~> (\/ watcher # "open"
        \/ \E k \in 1..Len(delivered) :
             \E m \in 1..Len(delivered[k].events) : delivered[k].events[m] = e)

\* C10: unless stop() intervenes, every .md event the running watcher accepts
\* is delivered to the callback exactly once, in one batch that holds all the
\* events buffered since the previous delivery in arrival order; a batch is
\* delivered only after the debounce interval has passed with no new event,
\* and the buffer is empty after the delivery.
C10_DebouncedBatches == []C10_Safety /\ C10_Delivered

\* C10: two batches were delivered, the first with two events.
C10_Witness ==
  /\ watcher = "open"
  /\ Len(delivered) = 2
  /\ Len(delivered[1].events) = 2

\* C11: once stop() has been called no batch reaches the callback: every
\* batch was delivered while the watcher was running and stop() had not been
\* called, also when events arrive while the subscription is closing.
C11_NoDeliveryAfterStop ==
  \A k \in 1..Len(delivered) : delivered[k].open

\* C11: stop() has been called and awaits close(); an event that arrived since
\* was delivered to the callback.
C11_Witness ==
  /\ watcher = "closing"
  /\ \E k \in 1..Len(delivered) :
       /\ ~delivered[k].open
       /\ delivered[k].events # <<>>

\* ----------------------------------------------- SnapshotBuilder: actions
coreVars == <<dirVars, mgrVars, engVars, fwVars>>

\* The snapshot manager, the engine and the watcher, not in use.
CoreIdle ==
  /\ snapshots = [i \in SnapIds |-> Absent]
  /\ clock = 0
  /\ MgrIdle
  /\ EngIdle
  /\ FwIdle

\* The steps of one loop iteration that can throw, in the order of the code.
StageOrder ==
  <<"parseFile", "chunkLeaves", "embed", "storeMetadata", "indexBm25",
    "indexVector", "none">>

StageNo(stage) == CHOOSE n \in 1..Len(StageOrder) : StageOrder[n] = stage

\* the step has returned when the iteration fails at failedAt ("none": never)
Returned(stage, failedAt) == StageNo(stage) < StageNo(failedAt)

RECURSIVE InOrder(_)
InOrder(S) ==
  IF S = {} THEN <<>>
  ELSE LET d == CHOOSE x \in S : \A y \in S : x <= y
       IN <<d>> \o InOrder(S \ {d})

\* deps.storeMetadata(docUri, tree, leaves): the rows of the document are
\* replaced by the rows of its leaves
storeMetadata(st, d, leafRows) ==
  [st EXCEPT !.meta = {e \in @ : e[1] # d} \cup leafRows]

\* deps.indexBm25(chunks)
indexBm25(st, chunks) == [st EXCEPT !.bm25 = @ \cup chunks]

\* deps.indexVector(embeddings)
indexVector(st, embeddings) == [st EXCEPT !.vector = @ \cup embeddings]

\* deps.getCachedEmbedding(leafId): the vector the previous snapshot holds
getCachedEmbedding(leafId) ==
  IF leafId \in prior.vector THEN "cached" ELSE "null"

\* A loop that gives up at the first failure.
nextFileAbortsOnFailure(i, n, failedAt) ==
  IF failedAt = "none" THEN i + 1 ELSE n + 1

\* the for loops, lines 77 and 127: the catch block swallows the failure and
\* the loop goes on with the next file
nextFile(i, n, failedAt) == i + 1

\* An incremental build that embeds every chunk.
chunksToEmbedAll(chunks) == chunks

\* buildIncremental, lines 142-153: the chunks with no cached embedding
chunksToEmbed(chunks) == {c \in chunks : getCachedEmbedding(c) = "null"}

\* buildIncremental, lines 143-149: the chunks whose cached embedding is used
cachedEmbeddings(chunks) == {c \in chunks : getCachedEmbedding(c) # "null"}

\* the previous snapshot: document d has its first k[d] leaves
PriorStore(k) ==
  LET all == UNION {leavesOf(d, k[d]) : d \in Docs}
  IN [meta |-> all, bm25 |-> all, vector |-> all]

Iteration(d, failedAt, chunks, embedded, cached) ==
  [doc |-> d, failedAt |-> failedAt, chunks |-> chunks, embedded |-> embedded,
   cached |-> cached]

\* buildFull(files), lines 63-75
BuildFullBegins ==
  /\ buildPc = "idle"
  /\ \E S \in SUBSET Docs : files' = InOrder(S)
  /\ buildPc' = "running"
  /\ buildMode' = "full"
  /\ UNCHANGED <<deleted, fileIdx, stats, store, prior, iterations>>

\* buildIncremental(added, modified, deleted), lines 108-125: the snapshot
\* under construction starts as a copy of the previous one; added documents
\* are new, modified and deleted ones are in the previous snapshot
BuildIncrementalBegins ==
  /\ buildPc = "idle"
  /\ \E k \in [Docs -> 0..MaxLeaves] :
       \E added \in SUBSET {d \in Docs : k[d] = 0} :
         \E modified \in SUBSET {d \in Docs : k[d] > 0} :
           \E del \in SUBSET ({d \in Docs : k[d] > 0} \ modified) :
             /\ prior' = PriorStore(k)
             /\ store' = PriorStore(k)
             /\ files' = InOrder(added) \o InOrder(modified)
             /\ deleted' = del
  /\ buildPc' = "running"
  /\ buildMode' = "incremental"
  /\ UNCHANGED <<fileIdx, stats, iterations>>

\* One iteration of the loop of buildFull, lines 77-100: the document has k
\* leaves, and the step failedAt throws ("none": no step does).
BuildFullFile ==
  /\ buildPc = "running"
  /\ buildMode = "full"
  /\ fileIdx <= Len(files)
  /\ \E k \in 0..MaxLeaves :
       \E failedAt \in {StageOrder[n] : n \in 1..Len(StageOrder)} :
         LET d == files[fileIdx]
             chunks == IF Returned("chunkLeaves", failedAt)
                       THEN leavesOf(d, k) ELSE {}
             s1 == IF chunks # {} /\ Returned("storeMetadata", failedAt)
                   THEN storeMetadata(store, d, chunks) ELSE store
             s2 == IF chunks # {} /\ Returned("indexBm25", failedAt)
                   THEN indexBm25(s1, chunks) ELSE s1
             s3 == IF chunks # {} /\ Returned("indexVector", failedAt)
                   THEN indexVector(s2, chunks) ELSE s2
         IN /\ chunks = {} => failedAt \in {"parseFile", "chunkLeaves", "none"}
            /\ stats' =
                 [stats EXCEPT
                    !.chunksCreated = @ + Cardinality(chunks),
                    !.embeddingsCreated =
                      @ + (IF Returned("embed", failedAt)
                           THEN Cardinality(chunks) ELSE 0),
                    !.filesProcessed = @ + (IF failedAt = "none" THEN 1 ELSE 0),
                    !.filesFailed = @ + (IF failedAt = "none" THEN 0 ELSE 1)]
            /\ store' = s3
            /\ iterations' =
                 Append(iterations, Iteration(d, failedAt, chunks, chunks, {}))
            /\ fileIdx' = nextFile(fileIdx, Len(files), failedAt)
  /\ UNCHANGED <<buildPc, buildMode, files, deleted, prior>>

\* One iteration of the loop of buildIncremental, lines 127-172.
BuildIncrementalFile ==
  /\ buildPc = "running"
  /\ buildMode = "incremental"
  /\ fileIdx <= Len(files)
  /\ \E k \in 0..MaxLeaves :
       \E failedAt \in {StageOrder[n] : n \in 1..Len(StageOrder)} :
         LET d == files[fileIdx]
             chunks == IF Returned("chunkLeaves", failedAt)
                       THEN leavesOf(d, k) ELSE {}
             toEmbed == chunksToEmbed(chunks)
             cached == cachedEmbeddings(chunks)
             allEmbeddings == cached \cup toEmbed
             s1 == IF Returned("storeMetadata", failedAt)
                   THEN storeMetadata(store, d, chunks) ELSE store
             s2 == IF Returned("indexBm25", failedAt)
                   THEN indexBm25(s1, chunks) ELSE s1
             s3 == IF Returned("indexVector", failedAt)
                   THEN indexVector(s2, allEmbeddings) ELSE s2
         IN /\ failedAt = "embed" => toEmbed # {}
            /\ stats' =
                 [stats EXCEPT
                    !.chunksCreated = @ + Cardinality(chunks),
                    !.embeddingsCached = @ + Cardinality(cached),
                    !.embeddingsCreated =
                      @ + (IF Returned("embed", failedAt)
                           THEN Cardinality(toEmbed) ELSE 0),
                    !.filesProcessed = @ + (IF failedAt = "none" THEN 1 ELSE 0),
                    !.filesFailed = @ + (IF failedAt = "none" THEN 0 ELSE 1)]
            /\ store' = s3
            /\ iterations' =
                 Append(iterations, Iteration(d, failedAt, chunks, toEmbed, cached))
            /\ fileIdx' = nextFile(fileIdx, Len(files), failedAt)
  /\ UNCHANGED <<buildPc, buildMode, files, deleted, prior>>

\* lines 102-105 and 174-177: the loop has ended and the build returns
BuildReturns ==
  /\ buildPc = "running"
  /\ fileIdx > Len(files)
  /\ buildPc' = "done"
  /\ UNCHANGED <<buildMode, files, deleted, fileIdx, stats, store, prior,
                 iterations>>

BldInit ==
  /\ CoreIdle
  /\ ExtIdle

BldNext ==
  \/ BuildFullBegins /\ UNCHANGED <<coreVars, lastQuery, watchVars, storeVars, chunkVars, parserVars, shardVars>>
  \/ BuildIncrementalBegins /\ UNCHANGED <<coreVars, lastQuery, watchVars, storeVars, chunkVars, parserVars, shardVars>>
  \/ BuildFullFile /\ UNCHANGED <<coreVars, lastQuery, watchVars, storeVars, chunkVars, parserVars, shardVars>>
  \/ BuildIncrementalFile /\ UNCHANGED <<coreVars, lastQuery, watchVars, storeVars, chunkVars, parserVars, shardVars>>
  \/ BuildReturns /\ UNCHANGED <<coreVars, lastQuery, watchVars, storeVars, chunkVars, parserVars, shardVars>>

SpecBuilder == BldInit /\ [][BldNext]_vars

\* ------------------------------------------------ SnapshotBuilder: claims
\* C12: a step of a file that throws counts the file as failed and the loop
\* goes on: inside the loop the files before the current one were all
\* processed, each counted once as processed or failed, and when the build
\* returns every file was processed in turn and filesProcessed + filesFailed
\* is the number of files.
C12_FailuresDoNotAbort ==
  /\ buildPc = "running" =>
       /\ Len(iterations) = fileIdx - 1
       /\ stats.filesProcessed + stats.filesFailed = fileIdx - 1
  /\ buildPc = "done" =>
       /\ Len(iterations) = Len(files)
       /\ \A i \in 1..Len(files) : iterations[i].doc = files[i]
       /\ stats.filesProcessed + stats.filesFailed = Len(files)
       /\ stats.filesFailed =
            Cardinality({i \in 1..Len(files) : iterations[i].failedAt # "none"})

\* C12: a build has returned whose first file failed and whose second file
\* was processed.
C12_Witness ==
  /\ buildPc = "done"
  /\ Len(files) = 2
  /\ iterations[1].failedAt \in {"parseFile", "embed", "indexVector"}
  /\ iterations[2].failedAt = "none"
  /\ stats.filesProcessed = 1
  /\ stats.filesFailed = 1

\* C13: in every iteration of buildIncremental that has chunked its file, the
\* chunks handed to the embedder are exactly the chunks with no cached
\* embedding, the cached vector is used for exactly the other chunks, and the
\* two sets are disjoint and together are all chunks of the file.
C13_EmbedOrCache ==
  buildMode = "incremental" =>
    \A i \in 1..Len(iterations) :
      LET it == iterations[i]
      IN /\ it.embedded = {c \in it.chunks : c \notin prior.vector}
         /\ it.cached = {c \in it.chunks : c \in prior.vector}
         /\ it.embedded \cap it.cached = {}
         /\ it.embedded \cup it.cached = it.chunks

\* C13: a modified document was processed with one chunk from the cache and
\* one chunk embedded.
C13_Witness ==
  /\ buildMode = "incremental"
  /\ \E i \in 1..Len(iterations) :
       /\ iterations[i].failedAt = "none"
       /\ Cardinality(iterations[i].cached) = 1
       /\ Cardinality(iterations[i].embedded) = 1

\* the entries of the snapshot that belong to document d
EntriesOf(st, d) == {e \in st.meta \cup st.bm25 \cup st.vector : e[1] = d}

\* C14: when buildIncremental returns with no failed file, the built snapshot
\* holds no metadata, BM25 or vector entry of a deleted document, and of a
\* modified document only the entries of its new content.
C14_DeletedAndStaleEntriesGone ==
  (buildPc = "done" /\ buildMode = "incremental" /\ stats.filesFailed = 0) =>
    /\ \A d \in deleted : EntriesOf(store, d) = {}
    /\ \A i \in 1..Len(iterations) :
         EntriesOf(store, iterations[i].doc) = iterations[i].chunks

\* C14: buildIncremental has returned with no failed file, and the built
\* snapshot still holds entries of a deleted document.
C14_Witness ==
  /\ buildPc = "done"
  /\ buildMode = "incremental"
  /\ stats.filesFailed = 0
  /\ \E d \in deleted : EntriesOf(store, d) # {}

\* --------------------------------------------------------------- queries
\* The characters of a query text, and the texts.
Chars == {" ", "\n", "a"}

Whitespace == {" ", "\n"}

Texts == UNION {[1..n -> Chars] : n \in 0..MaxQueryLen}

\* A trim that removes nothing.
trimNothing(text) == text

RECURSIVE trimStart(_)
trimStart(text) ==
  IF text # <<>> /\ Head(text) \in Whitespace THEN trimStart(Tail(text)) ELSE text

RECURSIVE trimEnd(_)
trimEnd(text) ==
  IF text # <<>> /\ text[Len(text)] \in Whitespace
  THEN trimEnd(SubSeq(text, 1, Len(text) - 1)) ELSE text

\* String.prototype.trim()
trim(text) == trimEnd(trimStart(text))

\* RetrievalPipeline.query(params): an empty result for an empty query, else
\* the searches run and found is what they yield
pipelineQuery(text, loaded, startTime, now, found) ==
  IF trim(text) = <<>>
  THEN Outcome("pipeline", text, loaded, "ok", <<>>, now - startTime, FALSE)
  ELSE Outcome("pipeline", text, loaded, "ok", found, now - startTime, TRUE)

\* MsrlEngine.query(params), lines 222-269
engineQuery(text, loaded, startTime, now, found) ==
  IF loaded = NoSnapshot
  THEN Outcome("engine", text, loaded, query(loaded), <<>>, 0, FALSE)
  ELSE IF text = <<>> \/ trim(text) = <<>>
  THEN Outcome("engine", text, loaded, "INVALID_ARGUMENT", <<>>, 0, FALSE)
  ELSE [pipelineQuery(text, loaded, startTime, now, found) EXCEPT !.via = "engine"]

\* what the searches of one query yield: nothing, or one leaf
Found == {<<>>, <<"leaf">>}

\* the loaded snapshot of the engine that is queried
Loaded == {NoSnapshot, 1}

\* pipeline.query({query: text, limit})
QueryPipeline ==
  \E text \in Texts : \E startTime \in 0..MaxClock : \E now \in Now(startTime) :
    \E found \in Found :
      lastQuery' = pipelineQuery(text, 1, startTime, now, found)

\* engine.query({query: text})
QueryEngine ==
  \E text \in Texts : \E startTime \in 0..MaxClock : \E now \in Now(startTime) :
    \E found \in Found : \E loaded \in Loaded :
      lastQuery' = engineQuery(text, loaded, startTime, now, found)

QryInit ==
  /\ CoreIdle
  /\ ExtIdle

QryNext ==
  \/ QueryPipeline /\ UNCHANGED <<coreVars, bldVars, watchVars, storeVars, chunkVars, parserVars, shardVars>>
  \/ QueryEngine /\ UNCHANGED <<coreVars, bldVars, watchVars, storeVars, chunkVars, parserVars, shardVars>>

SpecQuery == QryInit /\ [][QryNext]_vars

\* the text is empty or consists of whitespace
Blank(text) == \A n \in 1..Len(text) : text[n] \in Whitespace

\* C16, as stated: a query with an empty or whitespace-only text returns an
\* empty result list with tookMs >= 0 and not an error, whichever way it is
\* made.
C16_BlankQueryReturnsEmpty ==
  (lastQuery.via # "none" /\ Blank(lastQuery.text)) =>
    /\ lastQuery.outcome = "ok"
    /\ lastQuery.results = <<>>
    /\ lastQuery.tookMs >= 0

\* C16, amended: RetrievalPipeline.query answers an empty or whitespace-only
\* text with an empty result list and tookMs >= 0 without searching;
\* MsrlEngine.query rejects such a text: with NOT_INDEXED when no snapshot is
\* loaded, else with INVALID_ARGUMENT, and it does not reach the pipeline.
C16_BlankQueryByEntryPoint ==
  Blank(lastQuery.text) =>
    /\ lastQuery.via = "pipeline" =>
         /\ lastQuery.outcome = "ok"
         /\ lastQuery.results = <<>>
         /\ lastQuery.tookMs >= 0
         /\ ~lastQuery.searched
    /\ lastQuery.via = "engine" =>
         /\ lastQuery.outcome =
              IF lastQuery.loaded = NoSnapshot
              THEN "NOT_INDEXED" ELSE "INVALID_ARGUMENT"
         /\ ~lastQuery.searched

\* C16: the pipeline has answered a whitespace-only query with an empty
\* result after some time.
C16_Witness ==
  /\ lastQuery.via = "pipeline"
  /\ lastQuery.text = <<" ", "\n">>
  /\ lastQuery.results = <<>>
  /\ lastQuery.tookMs = 1

\* C16: the engine has rejected a whitespace-only query.
C16_EngineRejects ==
  /\ lastQuery.via = "engine"
  /\ lastQuery.text = <<" ">>
  /\ lastQuery.outcome = "INVALID_ARGUMENT"

\* ------------------------------------------------------ MsrlEngine: setWatch
\* the debounce intervals a caller can give
DebounceValues == 1..MaxDebounce

\* startWatcher(), lines 188-201: a new FileWatcher with the configured
\* debounce interval, unless there is one
startWatcher(fw, configured) == IF fw # NoWatcher THEN fw ELSE configured

\* stopWatcher(), lines 203-209
stopWatcher(fw) == NoWatcher

\* lines 377-381
switchWatcher(fw, configured, enabled) ==
  IF enabled /\ fw = NoWatcher THEN startWatcher(fw, configured)
  ELSE IF ~enabled /\ fw # NoWatcher THEN stopWatcher(fw)
  ELSE fw

\* lines 384-392: the new interval is taken over when one is given and a
\* watcher exists after the switch
takesDebounce(fw, given) == given # NoDebounce /\ fw # NoWatcher

\* setWatch(params), lines 377-381: the watcher is started at once, or
\* stopWatcher() is called and awaits the FileWatcher's stop()
SetWatchBegins ==
  /\ watchPc = "idle"
  /\ \E enabled \in BOOLEAN : \E given \in {NoDebounce} \cup DebounceValues :
       /\ lastWatch' = WatchCall(enabled, given, lastWatch.returned)
       /\ IF ~enabled /\ fileWatcher # NoWatcher
          THEN /\ watchPc' = "stopping"
               /\ UNCHANGED fileWatcher
          ELSE /\ watchPc' = "switched"
               /\ fileWatcher' = switchWatcher(fileWatcher, debounceMs, enabled)
  /\ UNCHANGED debounceMs

\* stopWatcher(), lines 206-207: stop() has resolved
SetWatchStopped ==
  /\ watchPc = "stopping"
  /\ fileWatcher' = switchWatcher(fileWatcher, debounceMs, lastWatch.enabled)
  /\ watchPc' = "switched"
  /\ UNCHANGED <<debounceMs, lastWatch>>

\* line 384, and lines 394-397 when the interval is not taken over
SetWatchChecksDebounce ==
  /\ watchPc = "switched"
  /\ IF takesDebounce(fileWatcher, lastWatch.debounceMs)
     THEN /\ watchPc' = "restarting"
          /\ UNCHANGED lastWatch
     ELSE /\ watchPc' = "idle"
          /\ lastWatch' =
               [lastWatch EXCEPT !.returned =
                  [enabled |-> fileWatcher # NoWatcher, debounceMs |-> debounceMs]]
  /\ UNCHANGED <<fileWatcher, debounceMs>>

\* lines 387-391: the watcher is stopped, the interval configured and the
\* watcher started again
SetWatchRestarts ==
  /\ watchPc = "restarting"
  /\ debounceMs' = lastWatch.debounceMs
  /\ fileWatcher' =
       IF lastWatch.enabled
       THEN startWatcher(stopWatcher(fileWatcher), lastWatch.debounceMs)
       ELSE stopWatcher(fileWatcher)
  /\ watchPc' = "restarted"
  /\ UNCHANGED lastWatch

\* lines 394-397
SetWatchReturns ==
  /\ watchPc = "restarted"
  /\ watchPc' = "idle"
  /\ lastWatch' =
       [lastWatch EXCEPT !.returned =
          [enabled |-> fileWatcher # NoWatcher, debounceMs |-> debounceMs]]
  /\ UNCHANGED <<fileWatcher, debounceMs>>

\* The engine after create(): the watcher runs if config.watcher.enabled.
WatchInit ==
  /\ CoreIdle
  /\ BldIdle
  /\ QryIdle
  /\ StoreIdle
  /\ ChunkIdle
  /\ ParserIdle
  /\ ShardIdle
  /\ watchPc = "idle"
  /\ debounceMs \in DebounceValues
  /\ fileWatcher \in {NoWatcher, debounceMs}
  /\ lastWatch = WatchCall(fileWatcher # NoWatcher, NoDebounce,
                           [enabled |-> fileWatcher # NoWatcher,
                            debounceMs |-> debounceMs])

WatchNext ==
  \/ SetWatchBegins /\ UNCHANGED <<coreVars, bldVars, lastQuery, storeVars, chunkVars, parserVars, shardVars>>
  \/ SetWatchStopped /\ UNCHANGED <<coreVars, bldVars, lastQuery, storeVars, chunkVars, parserVars, shardVars>>
  \/ SetWatchChecksDebounce /\ UNCHANGED <<coreVars, bldVars, lastQuery, storeVars, chunkVars, parserVars, shardVars>>
  \/ SetWatchRestarts /\ UNCHANGED <<coreVars, bldVars, lastQuery, storeVars, chunkVars, parserVars, shardVars>>
  \/ SetWatchReturns /\ UNCHANGED <<coreVars, bldVars, lastQuery, storeVars, chunkVars, parserVars, shardVars>>

SpecWatch == WatchInit /\ [][WatchNext]_vars

\* C17: after setWatch({enabled, debounceMs}) the watcher runs exactly when
\* enabled is true, and when debounceMs is given it is the interval that is
\* returned, that is configured for later starts and that a running watcher
\* uses.
C17_SetWatchTakesEffect ==
  watchPc = "idle" =>
    /\ lastWatch.returned.enabled = lastWatch.enabled
    /\ (fileWatcher # NoWatcher) = lastWatch.enabled
    /\ lastWatch.debounceMs # NoDebounce =>
         /\ lastWatch.returned.debounceMs = lastWatch.debounceMs
         /\ debounceMs = lastWatch.debounceMs
         /\ fileWatcher # NoWatcher => fileWatcher = lastWatch.debounceMs

\* C17: setWatch({enabled: false, debounceMs}) has returned another interval
\* than the one given, and the given one is not configured.
C17_Witness ==
  /\ watchPc = "idle"
  /\ ~lastWatch.enabled
  /\ lastWatch.debounceMs # NoDebounce
  /\ lastWatch.returned.debounceMs # lastWatch.debounceMs
  /\ debounceMs # lastWatch.debounceMs
  /\ fileWatcher = NoWatcher

\* C17: the parts of the claim that hold: the watcher runs exactly when
\* enabled is true, a running watcher uses the configured interval, and with
\* enabled true a given interval is taken over.
C17_EnabledPart ==
  watchPc = "idle" =>
    /\ (fileWatcher # NoWatcher) = lastWatch.enabled
    /\ fileWatcher # NoWatcher => fileWatcher = debounceMs
    /\ (lastWatch.enabled /\ lastWatch.debounceMs # NoDebounce) =>
         lastWatch.returned.debounceMs = lastWatch.debounceMs

\* ------------------------------------------- MetadataStore and Bm25Index
\* The document URIs, the (mtime, size, hash) values of a docs row, and the
\* ids of the nodes and leaves.
DocUris == {"a.md", "b.md"}

Metas == {"first", "second"}

RowIds == 1..MaxRows

RowsOf(table, uri) == {r \in table : r.docUri = uri}

\* The rowid SQLite gives a row inserted into nodes, leaves or fts_content:
\* one more than the largest rowid of the table. The tables of the model do
\* not record their rowids, so the value is any rowid the table can hold.
NewRowids == 1..MaxRows

\* An upsert that inserts whether or not the doc_uri exists.
upsertDocAlwaysInserts(table, id, uri, meta) ==
  table \cup {[docId |-> id, docUri |-> uri, meta |-> meta]}

\* upsertDoc(doc), lines 143-154: INSERT ... ON CONFLICT(doc_uri) DO UPDATE
upsertDoc(table, id, uri, meta) ==
  IF RowsOf(table, uri) # {}
  THEN {IF r.docUri = uri THEN [r EXCEPT !.meta = meta] ELSE r : r \in table}
  ELSE table \cup {[docId |-> id, docUri |-> uri, meta |-> meta]}

\* deleteDoc(docUri), lines 164-167
deleteDoc(table, uri) == {r \in table : r.docUri # uri}

\* REFERENCES docs(doc_id) ON DELETE CASCADE, with foreign_keys = ON: the
\* rows of a child table whose doc_id has no docs row any more are deleted
cascadeDocs(child, table) ==
  {c \in child : \E r \in table : r.docId = c.docId}

\* leaves.node_id REFERENCES nodes(node_id) ON DELETE CASCADE
cascadeNodes(child, nodeTable) ==
  {c \in child : \E n \in nodeTable : n.nodeId = c.nodeId}

\* result.lastInsertRowid after the statement of upsertDoc, lines 152-153:
\* the new doc_id when a row was inserted; the DO UPDATE branch inserts no
\* row and leaves the value of the connection as it was
upsertRowid(table, id, uri, rowid) ==
  IF RowsOf(table, uri) # {} THEN rowid ELSE id

\* upsertDoc(doc), lines 143-154; the docId of the call record is the value
\* returned
UpsertDoc ==
  \E uri \in DocUris : \E meta \in Metas :
    /\ RowsOf(docs, uri) = {} => nextDocId <= MaxDocIds
    /\ docs' = upsertDoc(docs, nextDocId, uri, meta)
    /\ nextDocId' = IF RowsOf(docs, uri) = {} THEN nextDocId + 1 ELSE nextDocId
    /\ lastInsertRowid' = upsertRowid(docs, nextDocId, uri, lastInsertRowid)
    /\ lastStore' =
         StoreCall("upsertDoc", uri, meta,
                   upsertRowid(docs, nextDocId, uri, lastInsertRowid), {},
                   \E r \in RowsOf(docs, uri) : r.meta # meta)
    /\ UNCHANGED <<nodes, leaves, fts>>

\* insertNodes([node]), lines 217-228: the doc_id must exist, the node_id is
\* the primary key
InsertNodes ==
  \E n \in RowIds : \E d \in docs :
    /\ \A x \in nodes : x.nodeId # n
    /\ nodes' = nodes \cup {[nodeId |-> n, docId |-> d.docId]}
    /\ lastStore' = StoreCall("insertNodes", d.docUri, "", d.docId, {}, FALSE)
    /\ lastInsertRowid' \in NewRowids
    /\ UNCHANGED <<docs, nextDocId, leaves, fts>>

\* insertLeaves([leaf]), lines 254-265: a leaf of an existing node
InsertLeaves ==
  \E l \in RowIds : \E n \in nodes :
    /\ n.nodeId = l
    /\ \A x \in leaves : x.leafId # l
    /\ leaves' = leaves \cup {[leafId |-> l, docId |-> n.docId, nodeId |-> n.nodeId]}
    /\ lastStore' = StoreCall("insertLeaves", "", "", n.docId, {l}, FALSE)
    /\ lastInsertRowid' \in NewRowids
    /\ UNCHANGED <<docs, nextDocId, nodes, fts>>

\* Bm25Index.insertFtsEntries([entry]), bm25-index.ts lines 36-51: the text
\* of a leaf; fts_content.leaf_id is UNIQUE
InsertFtsEntries ==
  \E x \in leaves :
    /\ x.leafId \notin fts
    /\ fts' = fts \cup {x.leafId}
    /\ lastStore' = StoreCall("insertFtsEntries", "", "", x.docId, {x.leafId}, FALSE)
    /\ lastInsertRowid' \in NewRowids
    /\ UNCHANGED <<docs, nextDocId, nodes, leaves>>

\* Bm25Index.deleteFtsEntries(leafIds), bm25-index.ts lines 57-87
DeleteFtsEntries ==
  \E ids \in SUBSET RowIds :
    /\ ids \cap fts # {}
    /\ fts' = fts \ ids
    /\ lastStore' = StoreCall("deleteFtsEntries", "", "", NoDocId, ids, FALSE)
    /\ UNCHANGED <<docs, nextDocId, nodes, leaves, lastInsertRowid>>

\* deleteDocCascade(docUri), lines 312-315
DeleteDocCascade ==
  \E uri \in DocUris :
    LET d == deleteDoc(docs, uri)
        ns == cascadeDocs(nodes, d)
    IN /\ RowsOf(docs, uri) # {}
       /\ docs' = d
       /\ nodes' = ns
       /\ leaves' = cascadeNodes(cascadeDocs(leaves, d), ns)
       /\ lastStore' =
            StoreCall("deleteDocCascade", uri, "",
                      (CHOOSE r \in RowsOf(docs, uri) : TRUE).docId,
                      {x.leafId : x \in {y \in leaves :
                          \E r \in RowsOf(docs, uri) : r.docId = y.docId}},
                      TRUE)
       /\ UNCHANGED <<nextDocId, fts, lastInsertRowid>>

StoreInit ==
  /\ CoreIdle
  /\ ExtIdle

StoreNext ==
  \/ UpsertDoc /\ UNCHANGED <<coreVars, bldVars, lastQuery, watchVars, chunkVars, parserVars, shardVars>>
  \/ InsertNodes /\ UNCHANGED <<coreVars, bldVars, lastQuery, watchVars, chunkVars, parserVars, shardVars>>
  \/ InsertLeaves /\ UNCHANGED <<coreVars, bldVars, lastQuery, watchVars, chunkVars, parserVars, shardVars>>
  \/ InsertFtsEntries /\ UNCHANGED <<coreVars, bldVars, lastQuery, watchVars, chunkVars, parserVars, shardVars>>
  \/ DeleteFtsEntries /\ UNCHANGED <<coreVars, bldVars, lastQuery, watchVars, chunkVars, parserVars, shardVars>>
  \/ DeleteDocCascade /\ UNCHANGED <<coreVars, bldVars, lastQuery, watchVars, chunkVars, parserVars, shardVars>>

SpecStore == StoreInit /\ [][StoreNext]_vars

\* C18: no doc_uri has more than one docs row, and after upsertDoc(doc),
\* also for a doc_uri that upsertDoc had stored before with other values,
\* there is exactly one row for doc.docUri, holding the mtime, size and hash
\* of this call.
C18_UpsertKeepsOneRow ==
  /\ \A uri \in DocUris : Cardinality(RowsOf(docs, uri)) <= 1
  /\ lastStore.op = "upsertDoc" =>
       /\ Cardinality(RowsOf(docs, lastStore.docUri)) = 1
       /\ \A r \in RowsOf(docs, lastStore.docUri) : r.meta = lastStore.meta

\* C18: upsertDoc was called for a doc_uri stored with other values, next to
\* another document.
C18_Witness ==
  /\ lastStore.op = "upsertDoc"
  /\ lastStore.existed
  /\ Cardinality(docs) = 2
  /\ \E r \in RowsOf(docs, lastStore.docUri) : r.meta = lastStore.meta

\* C19: after deleteDocCascade(docUri) no row or index entry refers to the
\* deleted document: no node and no leaf has its doc_id, and no leaf it had
\* has a full-text entry.
C19_DeleteRemovesEverything ==
  lastStore.op = "deleteDocCascade" =>
    /\ RowsOf(docs, lastStore.docUri) = {}
    /\ \A n \in nodes : n.docId # lastStore.docId
    /\ \A x \in leaves : x.docId # lastStore.docId
    /\ fts \cap lastStore.leafIds = {}

\* C19: a document with a leaf that has a full-text entry was deleted: its
\* nodes and leaves are gone and the full-text entry is still there.
C19_Witness ==
  /\ lastStore.op = "deleteDocCascade"
  /\ \A n \in nodes : n.docId # lastStore.docId
  /\ \A x \in leaves : x.docId # lastStore.docId
  /\ fts \cap lastStore.leafIds # {}

\* C19: what holds: deleting a document removes its nodes and its leaves.
C19_NodesAndLeavesCascade ==
  /\ \A n \in nodes : \E r \in docs : r.docId = n.docId
  /\ \A x \in leaves :
       /\ \E r \in docs : r.docId = x.docId
       /\ \E n \in nodes : n.nodeId = x.nodeId

\* ---------------------------------------------------------------- Chunker
\* Character offsets are counted from 0 as in the code: the character at
\* offset i of text is text[i + 1].
slice(text, from, to) == SubSeq(text, from + 1, to)

\* text.indexOf('\n', pos)
indexOfNewline(text, pos) ==
  IF \E i \in pos..(Len(text) - 1) : text[i + 1] = "\n"
  THEN CHOOSE i \in pos..(Len(text) - 1) :
         /\ text[i + 1] = "\n"
         /\ \A j \in pos..(i - 1) : text[j + 1] # "\n"
  ELSE -1

\* text.indexOf('\n\n', pos)
indexOfBreak(text, pos) ==
  IF \E i \in pos..(Len(text) - 2) : text[i + 1] = "\n" /\ text[i + 2] = "\n"
  THEN CHOOSE i \in pos..(Len(text) - 2) :
         /\ text[i + 1] = "\n" /\ text[i + 2] = "\n"
         /\ \A j \in pos..(i - 1) : ~(text[j + 1] = "\n" /\ text[j + 2] = "\n")
  ELSE -1

\* while (pos < text.length && text[pos] === '\n') pos++
RECURSIVE skipNewlines(_, _)
skipNewlines(text, pos) ==
  IF pos < Len(text) /\ text[pos + 1] = "\n" THEN skipNewlines(text, pos + 1)
  ELSE pos

Paragraph(text, startOffset) == [text |-> text, startOffset |-> startOffset]

\* paraText.trim().length > 0
hasContent(paraText) == trim(paraText) # <<>>

\* ---- FenceDetector (fence-detector.ts). The character "~" stands for a run
\* of three tildes, so a run of n of them is a fence of 3n tildes.
\* the offset of the end of the line that starts at lineStart
lineEnd(text, lineStart) ==
  IF indexOfNewline(text, lineStart) = -1 THEN Len(text)
  ELSE indexOfNewline(text, lineStart)

\* the number of characters c from offset pos on, before offset limit, and
\* at most max of them
RECURSIVE runOf(_, _, _, _, _)
runOf(text, c, pos, limit, max) ==
  IF pos < limit /\ max > 0 /\ text[pos + 1] = c
  THEN 1 + runOf(text, c, pos + 1, limit, max - 1) ELSE 0

\* matchFenceOpen(line), lines 114-153: the length of the fence that the
\* line opens (0: the line opens none), after at most 3 leading spaces
matchFenceOpen(text, lineStart) ==
  LET end == lineEnd(text, lineStart)
      lead == runOf(text, " ", lineStart, end, 3)
  IN runOf(text, "~", lineStart + lead, end, Len(text))

\* matchFenceClose(line, fenceChar, minLength), lines 159-166: at most 3
\* leading spaces, a run of at least minLength, then only spaces
matchFenceClose(text, lineStart, minLength) ==
  LET end == lineEnd(text, lineStart)
      lead == runOf(text, " ", lineStart, end, 3)
      run == runOf(text, "~", lineStart + lead, end, Len(text))
  IN /\ run >= minLength
     /\ \A i \in (lineStart + lead + run)..(end - 1) : text[i + 1] = " "

FencedRegion(startChar, endChar) == [startChar |-> startChar, endChar |-> endChar]

\* the loop of detect(text), lines 47-89, from the line at lineStart on;
\* fenceLength is 0 outside a fence
RECURSIVE detectFrom(_, _, _, _)
detectFrom(text, lineStart, fenceStart, fenceLength) ==
  IF lineStart > Len(text)
  THEN IF fenceLength > 0 THEN <<FencedRegion(fenceStart, Len(text))>> ELSE <<>>
  ELSE LET end == lineEnd(text, lineStart)
       IN IF fenceLength = 0
          THEN IF matchFenceOpen(text, lineStart) > 0
               THEN detectFrom(text, end + 1, lineStart,
                               matchFenceOpen(text, lineStart))
               ELSE detectFrom(text, end + 1, 0, 0)
          ELSE IF matchFenceClose(text, lineStart, fenceLength)
               THEN <<FencedRegion(fenceStart, end)>>
                    \o detectFrom(text, end + 1, 0, 0)
               ELSE detectFrom(text, end + 1, fenceStart, fenceLength)

\* FenceDetector.detect(text), lines 37-92
detect(text) == detectFrom(text, 0, 0, 0)

\* A split at every blank line, fenced or not.
RECURSIVE splitIgnoringFences(_, _, _)
splitIgnoringFences(text, fencedRegions, pos) ==
  IF pos >= Len(text) THEN <<>>
  ELSE LET nextBreak == indexOfBreak(text, pos)
       IN IF nextBreak = -1
          THEN IF hasContent(slice(text, pos, Len(text)))
               THEN <<Paragraph(slice(text, pos, Len(text)), pos)>>
               ELSE <<>>
          ELSE (IF hasContent(slice(text, pos, nextBreak))
                THEN <<Paragraph(slice(text, pos, nextBreak), pos)>>
                ELSE <<>>)
               \o splitIgnoringFences(text, fencedRegions,
                                      skipNewlines(text, nextBreak))

\* fencedRegions.find(pred): the index of the first region that satisfies
\* pred, 0 if there is none
firstRegion(fencedRegions, matching) ==
  IF matching = {} THEN 0
  ELSE CHOOSE n \in matching : \A m \in matching : n <= m

\* splitIntoParagraphs(text, fencedRegions), lines 54-89, from position pos:
\* a fenced region is one paragraph, the rest is split at blank lines
RECURSIVE splitIntoParagraphs(_, _, _)
splitIntoParagraphs(text, fencedRegions, pos) ==
  IF pos >= Len(text) THEN <<>>
  ELSE
    LET regions == 1..Len(fencedRegions)
        fence == firstRegion(fencedRegions,
                   {n \in regions : fencedRegions[n].startChar = pos})
        nextFence == firstRegion(fencedRegions,
                       {n \in regions : fencedRegions[n].startChar > pos})
        blank == indexOfBreak(text, pos)
        nextBreak ==
          IF nextFence # 0
             /\ (blank = -1 \/ fencedRegions[nextFence].startChar < blank)
          THEN fencedRegions[nextFence].startChar ELSE blank
    IN IF fence # 0
       THEN <<Paragraph(slice(text, fencedRegions[fence].startChar,
                              fencedRegions[fence].endChar),
                        fencedRegions[fence].startChar)>>
            \o splitIntoParagraphs(text, fencedRegions,
                 skipNewlines(text, fencedRegions[fence].endChar))
       ELSE IF nextBreak = -1
       THEN IF hasContent(slice(text, pos, Len(text)))
            THEN <<Paragraph(slice(text, pos, Len(text)), pos)>>
            ELSE <<>>
       ELSE (IF hasContent(slice(text, pos, nextBreak))
             THEN <<Paragraph(slice(text, pos, nextBreak), pos)>>
             ELSE <<>>)
            \o splitIntoParagraphs(text, fencedRegions,
                                   skipNewlines(text, nextBreak))

\* this.tokenCounter(text): the approximation by the length of the text
tokenCounter(text) == (Len(text) + 3) \div 4

\* paragraphs.map((p) => p.text).join('\n\n')
RECURSIVE joinParagraphs(_)
joinParagraphs(paragraphs) ==
  IF Len(paragraphs) = 1 THEN paragraphs[1].text
  ELSE paragraphs[1].text \o <<"\n", "\n">> \o joinParagraphs(Tail(paragraphs))

\* createChunk(paragraphs, docUri, node, contentStart, shardId), lines 124-149
createChunk(paragraphs, contentStart) ==
  LET firstPara == paragraphs[1]
      lastPara == paragraphs[Len(paragraphs)]
  IN [startChar |-> contentStart + firstPara.startOffset,
      endChar |-> contentStart + lastPara.startOffset + Len(lastPara.text),
      text |-> joinParagraphs(paragraphs)]

\* the loop of accumulateChunks, lines 104-119
RECURSIVE accumulate(_, _, _, _, _)
accumulate(paragraphs, currentParagraphs, currentTokens, contentStart, targetMax) ==
  IF paragraphs = <<>>
  THEN IF currentParagraphs # <<>>
       THEN <<createChunk(currentParagraphs, contentStart)>> ELSE <<>>
  ELSE LET para == Head(paragraphs)
           paraTokens == tokenCounter(para.text)
       IN IF currentTokens + paraTokens > targetMax /\ currentParagraphs # <<>>
          THEN <<createChunk(currentParagraphs, contentStart)>>
               \o accumulate(Tail(paragraphs), <<para>>, paraTokens,
                             contentStart, targetMax)
          ELSE accumulate(Tail(paragraphs), Append(currentParagraphs, para),
                          currentTokens + paraTokens, contentStart, targetMax)

\* accumulateChunks(paragraphs, ...), lines 91-122
accumulateChunks(paragraphs, contentStart, targetMax) ==
  accumulate(paragraphs, <<>>, 0, contentStart, targetMax)

\* findContentStart(node, text), lines 49-52
findContentStart(startChar, endChar, text) ==
  IF indexOfNewline(text, startChar) = -1 THEN endChar
  ELSE indexOfNewline(text, startChar) + 1

\* chunkNode(docUri, node, normalizedText, shardId), lines 35-47, for a node
\* without children that spans the whole text
chunkNode(text, targetMax) ==
  LET contentStart == findContentStart(0, Len(text), text)
      contentEnd == Len(text)
      nodeText == slice(text, contentStart, contentEnd)
  IN IF contentStart >= contentEnd THEN <<>>
     ELSE IF trim(nodeText) = <<>> THEN <<>>
     ELSE accumulateChunks(splitIntoParagraphs(nodeText, detect(nodeText), 0),
                           contentStart, targetMax)

\* the texts below the heading line of a document
Bodies == UNION {[1..n -> Chars \cup {"~"}] : n \in 0..MaxTextLen}

\* the normalized text of a document with one heading: it ends with a newline
Normalized(body) ==
  <<"#", "\n">> \o body \o
    (IF body # <<>> /\ body[Len(body)] # "\n" THEN <<"\n">> ELSE <<>>)

\* A document is parsed and its heading node is about to be chunked.
ChunkerGetsNode ==
  /\ chunkPc = "idle"
  /\ \E body \in Bodies : normalizedText' = Normalized(body)
  /\ targetMaxTokens' \in {1, 1000}
  /\ chunkPc' = "ready"
  /\ UNCHANGED nodeChunks

ChunkNode ==
  /\ chunkPc = "ready"
  /\ nodeChunks' = chunkNode(normalizedText, targetMaxTokens)
  /\ chunkPc' = "done"
  /\ UNCHANGED <<normalizedText, targetMaxTokens>>

ChunkInit ==
  /\ CoreIdle
  /\ ExtIdle

ChunkNext ==
  \/ ChunkerGetsNode /\ UNCHANGED <<coreVars, bldVars, lastQuery, watchVars, storeVars, parserVars, shardVars>>
  \/ ChunkNode /\ UNCHANGED <<coreVars, bldVars, lastQuery, watchVars, storeVars, parserVars, shardVars>>

SpecChunker == ChunkInit /\ [][ChunkNext]_vars

\* C20: for every chunk the chunker produces, the slice of the normalized
\* text from chunk.startChar to chunk.endChar is exactly chunk.text.
C20_SliceIsText ==
  chunkPc = "done" =>
    \A k \in 1..Len(nodeChunks) :
      slice(normalizedText, nodeChunks[k].startChar, nodeChunks[k].endChar) = nodeChunks[k].text

\* C20: the chunker has produced a chunk of two paragraphs whose text is
\* shorter than the range from its startChar to its endChar.
C20_Witness ==
  /\ chunkPc = "done"
  /\ normalizedText = <<"#", "\n", "a", "\n", "\n", "\n", "a", "\n">>
  /\ Len(nodeChunks) = 1
  /\ nodeChunks[1].text = <<"a", "\n", "\n", "a", "\n">>
  /\ nodeChunks[1].endChar - nodeChunks[1].startChar = 6

\* C20: what holds: a chunk made of one paragraph is the slice of its range.
C20_SingleParagraphChunks ==
  (chunkPc = "done" /\ targetMaxTokens = 1) =>
    \A k \in 1..Len(nodeChunks) :
      slice(normalizedText, nodeChunks[k].startChar, nodeChunks[k].endChar) = nodeChunks[k].text

\* the fenced regions of the node's own content, as offsets of the document
ContentFences ==
  LET contentStart == findContentStart(0, Len(normalizedText), normalizedText)
      regions == detect(slice(normalizedText, contentStart, Len(normalizedText)))
  IN {FencedRegion(contentStart + regions[n].startChar,
                   contentStart + regions[n].endChar) : n \in 1..Len(regions)}

\* C21: every fenced region of the node's own content lies within the range
\* of exactly one chunk, and no chunk starts or ends inside it, whatever the
\* token limit.
C21_FencesStayWhole ==
  chunkPc = "done" =>
    \A r \in ContentFences :
      /\ Cardinality({k \in 1..Len(nodeChunks) :
                        /\ nodeChunks[k].startChar <= r.startChar
                        /\ r.endChar <= nodeChunks[k].endChar}) = 1
      /\ \A k \in 1..Len(nodeChunks) :
           /\ ~(r.startChar < nodeChunks[k].startChar
                /\ nodeChunks[k].startChar < r.endChar)
           /\ ~(r.startChar < nodeChunks[k].endChar
                /\ nodeChunks[k].endChar < r.endChar)

\* C21: with a token limit of 1, a text before a fenced region that holds a
\* blank line was chunked: the text is one chunk and the region another.
C21_Witness ==
  /\ chunkPc = "done"
  /\ targetMaxTokens = 1
  /\ normalizedText = <<"#", "\n", "a", "\n", "~", "\n", "\n", "~", "\n">>
  /\ ContentFences = {FencedRegion(4, 8)}
  /\ Len(nodeChunks) = 2
  /\ nodeChunks[2].startChar = 4
  /\ nodeChunks[2].endChar = 8

C25_FailedBuildReleasesLock ==
  \A c \in CallIds :
    (calls[c].build = "failed" /\ Building(calls) = {}) =>
      /\ ~buildLock
      /\ getStatus(buildLock, currentSnapshot).state # "building"
      /\ \A wait \in BOOLEAN : reindexPath(buildLock, wait) = "build"

\* C25: a build failed, and a reindex called later has completed its own
\* build.
C25_Witness ==
  \E c, d \in CallIds :
    /\ c < d
    /\ calls[c].build = "failed"
    /\ calls[d].blockedBy = NoCall
    /\ calls[d].result = "completed"

\* C26: once shutdown() has resolved, every reindex of the watcher was made
\* before, and a build that was running or queued when shutdown() was called
\* has created no snapshot and activated none since.
C26_NothingAfterShutdown ==
  shutdown.pc = "resolved" =>
    \A c \in shutdown.pending :
      calls[c].snap # NoSnapshot =>
        /\ shutdown.dir[calls[c].snap].state # "none"
        /\ shutdown.dir[calls[c].snap].state = "building"
             => snapshots[calls[c].snap].state = "building"

\* C26: a reindex({wait: true}) was waiting for a build when shutdown() was
\* called; after shutdown() resolved it created a snapshot, which is now the
\* active one.
C26_Witness ==
  /\ shutdown.pc = "resolved"
  /\ currentSnapshot = NoSnapshot
  /\ \E c \in shutdown.pending :
       /\ calls[c].wait
       /\ calls[c].blockedBy # NoCall
       /\ calls[c].snap # NoSnapshot
       /\ shutdown.dir[calls[c].snap].state = "none"
       /\ snapshots[calls[c].snap].state = "active"

\* C26: once shutdown() has resolved, no batch of the watcher is handled:
\* no reindex call is made any more.
C26_NoBatchAfterShutdown ==
  [][shutdown.pc = "resolved" =>
       \A c \in CallIds : calls[c].pc = "unused" => calls'[c].pc = "unused"]_vars

\* ------------------------------------------------ MsrlEngine: retention
\* the retention limit K: the default of maxRetainedSnapshots
maxRetainedSnapshots == 3

\* C30: whatever reindex runs have completed, the snapshot directory holds
\* at most maxRetainedSnapshots snapshots.
C30_AtMostKSnapshotsKept ==
  Cardinality(Existing(snapshots)) <= maxRetainedSnapshots

\* C30: after create(), three reindex runs have completed, every build
\* succeeded, and the directory holds four snapshots.
C30_Witness ==
  /\ \A c \in 1..3 : calls[c].result = "completed"
  /\ ~buildLock
  /\ Cardinality(Existing(snapshots)) = 4
  /\ Cardinality(ActiveSet(snapshots)) = 1

\* C30: the engine removes no snapshot: every build that created its
\* snapshot has left it in the directory.
C30_EngineNeverDeletes ==
  \A c \in CallIds :
    calls[c].snap # NoSnapshot => calls[c].snap \in Existing(snapshots)

\* ----------------------------------------- MetadataStore: returned ids
\* C29: the value upsertDoc returned is the doc_id of the row that holds
\* docUri after the call, whether the row was inserted or updated.
C29_UpsertReturnsDocId ==
  lastStore.op = "upsertDoc" =>
    \A r \in RowsOf(docs, lastStore.docUri) : r.docId = lastStore.docId

\* C29: upsertDoc was called for a doc_uri that was stored before, after
\* another document was inserted, and returned the doc_id of that other
\* document.
C29_Witness ==
  /\ lastStore.op = "upsertDoc"
  /\ lastStore.existed
  /\ nodes = {}
  /\ leaves = {}
  /\ \E r \in docs : r.docUri # lastStore.docUri /\ r.docId = lastStore.docId

\* C29: on the insert path upsertDoc returns the doc_id of the new row: when
\* the value returned is not the doc_id of the row, the doc_uri was stored
\* before the call.
C29_InsertReturnsDocId ==
  [][(lastStore'.op = "upsertDoc" /\ lastStore' # lastStore
      /\ RowsOf(docs, lastStore'.docUri) = {})
     => \A r \in RowsOf(docs', lastStore'.docUri) :
          r.docId = lastStore'.docId]_vars

\* ------------------------------------- SnapshotManager: staged builds
\* C28: the snapshot that a rollback() has made active was active before: it
\* was 'inactive', never 'building', when rollback() was called.
C28_RollbackSkipsBuilding ==
  (last.op = "rollback" /\ ~last.threw) =>
    \A s \in ActiveSet(snapshots) : last.pre[s].state = "inactive"

\* C28: rollback() has returned, and the snapshot it made active was
\* 'building' when it was called.
C28_Witness ==
  /\ last.op = "rollback"
  /\ ~last.threw
  /\ \E s \in ActiveSet(snapshots) : last.pre[s].state = "building"

\* C28: a snapshot in state 'building' becomes active only through
\* activateSnapshot or rollback, and no call turns a snapshot into 'building'
\* after its creation.
C28_BuildingOnlyAtCreation ==
  [][\A s \in SnapIds :
       /\ (snapshots[s].state = "building" /\ snapshots'[s].state = "active")
            => last'.op \in {"activate", "rollback"}
       /\ (snapshots[s].state # "building" /\ snapshots'[s].state = "building")
            => (last'.op = "create" /\ snapshots[s].state = "none")]_vars

\* ------------------------------------- SnapshotBuilder: failed files
\* the entries of document d, store by store
EntriesByStore(st, d) ==
  [meta |-> {e \in st.meta : e[1] = d},
   bm25 |-> {e \in st.bm25 : e[1] = d},
   vector |-> {e \in st.vector : e[1] = d}]

\* C27: a file whose iteration failed, at whatever step, has contributed
\* nothing: the snapshot under construction holds of it what it held when
\* the build began (nothing in a full build).
C27_FailedFileLeavesNothing ==
  \A i \in 1..Len(iterations) :
    iterations[i].failedAt # "none" =>
      EntriesByStore(store, iterations[i].doc)
        = EntriesByStore(prior, iterations[i].doc)

\* C27: buildFull has returned, its only file is counted in filesFailed
\* because indexVector threw, and the snapshot holds the file's metadata and
\* BM25 entries.
C27_Witness ==
  /\ buildPc = "done"
  /\ buildMode = "full"
  /\ Len(files) = 1
  /\ stats.filesFailed = 1
  /\ iterations[1].failedAt = "indexVector"
  /\ iterations[1].chunks # {}
  /\ EntriesByStore(store, files[1]) =
       [meta |-> iterations[1].chunks, bm25 |-> iterations[1].chunks,
        vector |-> {}]

\* C27: a file whose iteration failed before storeMetadata returned (in
\* parseFile, chunkLeaves, embed or storeMetadata) has contributed nothing.
C27_EarlyFailureLeavesNothing ==
  \A i \in 1..Len(iterations) :
    iterations[i].failedAt
        \in {"parseFile", "chunkLeaves", "embed", "storeMetadata"} =>
      EntriesByStore(store, iterations[i].doc)
        = EntriesByStore(prior, iterations[i].doc)

\* ------------------------------------------------------- MarkdownParser
\* isInsideFence(offset, regions), lines 101-108
isInsideFence(offset, regions) ==
  \E n \in 1..Len(regions) :
    offset >= regions[n].startChar /\ offset < regions[n].endChar

\* line.match(HEADING_REGEX) for the line at lineStart, HEADING_REGEX being
\* /^(#{1,6})\s+(.+)$/ (line 188): the level of the heading, 0 if the line
\* is no heading. One to six "#", a space, and at least one more character.
headingLevel(text, lineStart) ==
  LET end == lineEnd(text, lineStart)
      hashes == runOf(text, "#", lineStart, end, Len(text))
  IN IF /\ hashes \in 1..6
        /\ lineStart + hashes + 2 <= end
        /\ text[lineStart + hashes + 1] = " "
     THEN hashes ELSE 0

\* a heading node; parent is the index of the node in whose children array
\* it was pushed (0 for the root)
HeadingNode(level, startChar, endChar, parent) ==
  [level |-> level, startChar |-> startChar, endChar |-> endChar,
   parent |-> parent]

\* The stack is popped, but the popped nodes keep the end they were created
\* with.
RECURSIVE popKeepingEnd(_, _, _, _)
popKeepingEnd(treeNodes, stack, level, lineStart) ==
  IF Len(stack) > 1 /\ treeNodes[stack[Len(stack)]].level >= level
  THEN popKeepingEnd(treeNodes, SubSeq(stack, 1, Len(stack) - 1), level,
                     lineStart)
  ELSE [treeNodes |-> treeNodes, stack |-> stack]

\* the while loop of lines 274-278: pop the stack until its top is a parent
\* (level < current); every popped node ends at the current line
RECURSIVE popStack(_, _, _, _)
popStack(treeNodes, stack, level, lineStart) ==
  IF Len(stack) > 1 /\ treeNodes[stack[Len(stack)]].level >= level
  THEN popStack([treeNodes EXCEPT ![stack[Len(stack)]].endChar = lineStart],
                SubSeq(stack, 1, Len(stack) - 1), level, lineStart)
  ELSE [treeNodes |-> treeNodes, stack |-> stack]

\* the loop over the lines, lines 250-291, from the line at lineStart on
RECURSIVE parseLines(_, _, _, _, _)
parseLines(text, fencedRegions, lineStart, treeNodes, stack) ==
  IF lineStart > Len(text) THEN treeNodes
  ELSE
    LET next == lineEnd(text, lineStart) + 1
        level == headingLevel(text, lineStart)
        popped == popStack(treeNodes, stack, level, lineStart)
        node == HeadingNode(level, lineStart, Len(text),
                            popped.stack[Len(popped.stack)])
    IN IF ~isInsideFence(lineStart, fencedRegions) /\ level > 0
       THEN parseLines(text, fencedRegions, next,
                       Append(popped.treeNodes, node),
                       Append(popped.stack, Len(popped.treeNodes) + 1))
       ELSE parseLines(text, fencedRegions, next, treeNodes, stack)

\* parseHeadings(docUri, normalizedText), lines 227-295
parseHeadings(text) ==
  parseLines(text, detect(text), 0, <<HeadingNode(0, 0, Len(text), 0)>>, <<1>>)

\* the lines of the documents: headings of three levels, a line that is no
\* heading for want of a space, text, a fence and the empty line
DocLines ==
  {<<"#", " ", "a">>, <<"#", "#", " ", "a">>, <<"#", "#", "#", " ", "a">>,
   <<"#", "a">>, <<"a">>, <<"~">>, <<>>}

\* the normalized text of the given lines: every line ends with a newline
RECURSIVE joinLines(_)
joinLines(docLines) ==
  IF docLines = <<>> THEN <<>>
  ELSE Head(docLines) \o <<"\n">> \o joinLines(Tail(docLines))

\* A document is normalized and about to be parsed.
ParserGetsText ==
  /\ parsePc = "idle"
  /\ \E n \in 1..MaxLines : \E docLines \in [1..n -> DocLines] :
       docText' = joinLines(docLines)
  /\ parsePc' = "ready"
  /\ UNCHANGED headingNodes

ParseHeadings ==
  /\ parsePc = "ready"
  /\ headingNodes' = parseHeadings(docText)
  /\ parsePc' = "done"
  /\ UNCHANGED docText

ParserInit ==
  /\ CoreIdle
  /\ ExtIdle

ParserNext ==
  \/ ParserGetsText /\ UNCHANGED <<coreVars, bldVars, lastQuery, watchVars, storeVars, chunkVars, shardVars>>
  \/ ParseHeadings /\ UNCHANGED <<coreVars, bldVars, lastQuery, watchVars, storeVars, chunkVars, shardVars>>

SpecParser == ParserInit /\ [][ParserNext]_vars

\* the indexes of the children of node n, in the order of its children array
ChildrenOf(n) == {c \in 1..Len(headingNodes) : headingNodes[c].parent = n}

\* C22: in the tree parseHeadings returned, for every node the ranges of its
\* children lie inside the node's range, are pairwise disjoint and in
\* document order, and every offset from the first child's start to the
\* node's end lies in a child.
C22_ChildrenPartitionSuffix ==
  parsePc = "done" =>
    \A n \in 1..Len(headingNodes) :
      /\ \A c \in ChildrenOf(n) :
           /\ headingNodes[n].startChar <= headingNodes[c].startChar
           /\ headingNodes[c].startChar <= headingNodes[c].endChar
           /\ headingNodes[c].endChar <= headingNodes[n].endChar
      /\ \A c, d \in ChildrenOf(n) :
           c < d => headingNodes[c].endChar <= headingNodes[d].startChar
      /\ \A c \in ChildrenOf(n) :
           (\A d \in ChildrenOf(n) : c <= d) =>
             \A offset \in
                 headingNodes[c].startChar..(headingNodes[n].endChar - 1) :
               \E d \in ChildrenOf(n) :
                 /\ headingNodes[d].startChar <= offset
                 /\ offset < headingNodes[d].endChar

\* C22: the text "# a", "### a", "## a", "# a" was parsed: the first heading
\* has two children, of which the deeper comes first, and a sibling after it.
C22_Witness ==
  /\ parsePc = "done"
  /\ docText = joinLines(<<<<"#", " ", "a">>, <<"#", "#", "#", " ", "a">>,
                           <<"#", "#", " ", "a">>, <<"#", " ", "a">>>>)
  /\ Len(headingNodes) = 5
  /\ ChildrenOf(1) = {2, 5}
  /\ ChildrenOf(2) = {3, 4}
  /\ headingNodes[2].endChar = headingNodes[5].startChar
  /\ headingNodes[4].endChar = headingNodes[2].endChar

\* ------------------------------------------------------ FaissShardIndex
\* A Map is the set of its entries <<key, value>>.
\* map.set(key, value)
mapSet(map, key, value) == {e \in map : e[1] # key} \cup {<<key, value>>}

MIN_VECTORS_FOR_IVFPQ == 1000

\* selectIndexType(shardSize), lines 16-18
selectIndexType(shardSize) ==
  IF shardSize < MIN_VECTORS_FOR_IVFPQ THEN "flat" ELSE "ivfpq"

LeafIds == {"x", "y"}

\* the vectors by their length: config.dimension or less
VectorKinds == {"full", "short"}

\* the loop of add, lines 98-114, from element i on; a vector of the wrong
\* dimension throws and leaves what the earlier elements did
RECURSIVE addLoop(_, _, _, _)
addLoop(ids, vectors, i, shard) ==
  IF i > Len(ids) \/ vectors[i] # "full" THEN shard
  ELSE addLoop(ids, vectors, i + 1,
               [ntotal |-> shard.ntotal + 1,
                nextId |-> shard.nextId + 1,
                idMap |-> mapSet(shard.idMap, shard.nextId, ids[i]),
                reverseMap |-> mapSet(shard.reverseMap, ids[i], shard.nextId)])

\* get size(), lines 84-86
size == Cardinality(idMap)

\* initialize(expectedSize), lines 59-82; expectedSize 0 is undefined
ShardInitialize ==
  /\ initCalls < MaxInits
  /\ \E expectedSize \in {0, 1, MIN_VECTORS_FOR_IVFPQ} :
       LET type == IF expectedSize # 0 THEN selectIndexType(expectedSize)
                   ELSE "flat"
       IN /\ indexType' = type
          /\ faissIndex' = [kind |-> type, ntotal |-> 0]
          /\ trained' = (type = "flat")
  /\ initCalls' = initCalls + 1
  /\ UNCHANGED <<idMap, reverseMap, nextId>>

\* train(trainingVectors), lines 144-165, with at least one vector
ShardTrain ==
  /\ faissIndex.kind # "none"
  /\ indexType # "flat"
  /\ trained' = TRUE
  /\ UNCHANGED <<faissIndex, initCalls, idMap, reverseMap, nextId, indexType>>

\* add(ids, vectors), lines 88-115; the calls that throw before the loop
\* change nothing
ShardAdd ==
  /\ faissIndex.kind # "none"
  /\ ~(indexType = "ivfpq" /\ ~trained)
  /\ \E n \in 1..MaxAnnIds :
       \E ids \in [1..n -> LeafIds], vectors \in [1..n -> VectorKinds] :
         /\ nextId + n <= MaxAnnIds
         /\ LET shard == addLoop(ids, vectors, 1,
                                 [ntotal |-> faissIndex.ntotal,
                                  nextId |-> nextId, idMap |-> idMap,
                                  reverseMap |-> reverseMap])
            IN /\ faissIndex' = [faissIndex EXCEPT !.ntotal = shard.ntotal]
               /\ nextId' = shard.nextId
               /\ idMap' = shard.idMap
               /\ reverseMap' = shard.reverseMap
  /\ UNCHANGED <<initCalls, indexType, trained>>

ShardInit ==
  /\ CoreIdle
  /\ ExtIdle

ShardNext ==
  \/ ShardInitialize /\ UNCHANGED <<coreVars, bldVars, lastQuery, watchVars, storeVars, chunkVars, parserVars>>
  \/ ShardTrain /\ UNCHANGED <<coreVars, bldVars, lastQuery, watchVars, storeVars, chunkVars, parserVars>>
  \/ ShardAdd /\ UNCHANGED <<coreVars, bldVars, lastQuery, watchVars, storeVars, chunkVars, parserVars>>

SpecShard == ShardInit /\ [][ShardNext]_vars

\* the inverse of a map
Inverse(map) == {<<e[2], e[1]>> : e \in map}

\* C23: on an index that was initialized once, after any add calls the two
\* maps are mutual inverses and size is the number of vectors in the index.
C23_MapsInverseAndSizeCounts ==
  initCalls = 1 =>
    /\ reverseMap = Inverse(idMap)
    /\ idMap = Inverse(reverseMap)
    /\ size = faissIndex.ntotal

\* C23: the leafId "x" was added twice to an index that was initialized
\* once: idMap holds it under two internal ids, reverseMap under the second.
C23_Witness ==
  /\ initCalls = 1
  /\ idMap = {<<0, "x">>, <<1, "x">>}
  /\ reverseMap = {<<"x", 1>>}
  /\ faissIndex.ntotal = 2

\* C23: on an index that was initialized once, size is the number of vectors
\* in the index, every entry of reverseMap is the inverse of an entry of
\* idMap, and the maps are mutual inverses as long as no leafId was added
\* twice.
C23_InverseForDistinctIds ==
  initCalls = 1 =>
    /\ size = faissIndex.ntotal
    /\ reverseMap \subseteq Inverse(idMap)
    /\ (\A e, f \in idMap : e[2] = f[2] => e = f) =>
         reverseMap = Inverse(idMap)

====
